---- MODULE Spec2Model ----
(***************************************************************************)
(* Verification model of the tile-grid game core:                          *)
(*   - the sub-stepped movement/collision engine (scripts/sprite.py),      *)
(*   - the maze carver, smoother and tile classifier (scripts/map.py).     *)
(*                                                                         *)
(* Real-valued pixel coordinates (pygame.Vector2) are kept in fixed point: *)
(* one pixel is Scale units, so that the unit vectors of the 3-4-5         *)
(* triangle (0.6, 0.8) and half pixels are exact.  Rectangles              *)
(* (pygame.Rect) hold whole pixels, as in pygame.                          *)
(***************************************************************************)
EXTENDS Integers, Sequences, FiniteSets, TLC

\* ------------------------------------------------------------------ bounds
MaxMoves == 2            \* _move calls made on one actor in a behaviour
MaxDraws == 4            \* cells with a random outcome in one smoothing iteration

\* ------------------------------------------------------- program constants
TileSize == 16           \* Game.__init__: Map(graphics, 16)
BorderSize == 2          \* Map.__init__: self.__border_size
HitboxInset == 4         \* MovingSprite.__init__: collider.inflate((-4, -4))

Scale == 2 * 5           \* fixed-point units per pixel

WALL == "##"
AIR == "  "
HOLE == "**"

NoTile == [type |-> "None"]

\* ---------------------------------------------------------------- helpers
Abs(n) == IF n < 0 THEN -n ELSE n

Sign(n) == IF n < 0 THEN -1 ELSE IF n > 0 THEN 1 ELSE 0

\* math.sqrt on the squared magnitudes used here (integer part)
Isqrt(n) == CHOOSE r \in 0..n : r * r <= n /\ (r + 1) * (r + 1) > n

\* Python round() of a fixed-point value to whole pixels: half goes to even
Round(p) ==
    LET q == p \div Scale
        r == p % Scale
    IN  IF 2 * r < Scale THEN q
        ELSE IF 2 * r > Scale THEN q + 1
        ELSE IF q % 2 = 0 THEN q ELSE q + 1

\* a bounds test that forgets the lower limits
is_within_bounds_upper(x, y, width, height) == x < width /\ y < height

\* utils.is_within_bounds
is_within_bounds(x, y, width, height) ==
    0 <= x /\ x < width /\ 0 <= y /\ y < height

\* ------------------------------------------------------------ rectangles
Rect(x, y, w, h) == [x |-> x, y |-> y, w |-> w, h |-> h]

Right(r) == r.x + r.w

Bottom(r) == r.y + r.h

\* pygame.Rect.inflate: grows around the centre (sizes here are even)
Inflate(r, dx, dy) == Rect(r.x - (dx \div 2), r.y - (dy \div 2), r.w + dx, r.h + dy)

\* pygame.Rect.move
MoveRect(r, dx, dy) == Rect(r.x + dx, r.y + dy, r.w, r.h)

\* pygame.Rect.colliderect: open overlap, a rect of zero size collides with nothing
colliderect(a, b) ==
    /\ a.w # 0 /\ a.h # 0 /\ b.w # 0 /\ b.h # 0
    /\ a.x < Right(b) /\ a.y < Bottom(b)
    /\ Right(a) > b.x /\ Bottom(a) > b.y

\* ------------------------------------------------------- tiles of the map
\* Map.place_tile: the per-type tables of collider inflation and offset
tile_inflate(type) ==
    IF type \in {"wall", "wall_top"} THEN <<0, -8>>
    ELSE IF type = "stone" THEN <<-4, -4>>
    ELSE <<0, 0>>

tile_move(type) ==
    IF type = "wall" THEN <<0, -10>>
    ELSE IF type = "wall_top" THEN <<0, 4>>
    ELSE <<0, 0>>

\* Tile.__init__: the collider of a tile image (TileSize square) placed at a cell
TileCollider(cx, cy, type) ==
    LET base == Rect(cx * TileSize, cy * TileSize, TileSize, TileSize)
        inf  == Inflate(base, tile_inflate(type)[1], tile_inflate(type)[2])
    IN  MoveRect(inf, tile_move(type)[1], tile_move(type)[2])

\* Map.place_tile followed by Tile.__init__: the tile stored in a matrix cell.
\* id stands for the identity of the Python object, image for its Surface.
NewTile(id, image, cx, cy, type, collidable) ==
    [id |-> id, image |-> image, type |-> type, collidable |-> collidable,
     cell |-> <<cx, cy>>, collider |-> TileCollider(cx, cy, type)]

\* ForegroundType that applies the rule of the four neighbours to the cells
\* of the border rows and columns as well
ForegroundTypeNoBorder(m, width, height, border, x, y) ==
    LET at(nx, ny) == IF is_within_bounds(nx, ny, width, height)
                      THEN m[ny][nx] ELSE "unresolved"
        East  == at(x + 1, y)
        West  == at(x - 1, y)
        South == at(x, y + 1)
        North == at(x, y - 1)
    IN  IF y = border /\ m[y][x] = AIR THEN "wall"
        ELSE IF m[y][x] # WALL THEN "None"
        ELSE IF South = WALL THEN "wall_top"
        ELSE IF North = AIR THEN "stone"
        ELSE "wall"

\* ForegroundType without the rule of the first interior row
ForegroundTypeUncapped(m, width, height, border, x, y) ==
    LET at(nx, ny) == IF is_within_bounds(nx, ny, width, height)
                      THEN m[ny][nx] ELSE "unresolved"
        East  == at(x + 1, y)
        West  == at(x - 1, y)
        South == at(x, y + 1)
        North == at(x, y - 1)
    IN  IF y < border \/ y >= height - border THEN "wall_top"
        ELSE IF x < border \/ x >= width - border THEN "wall_top"
        ELSE IF m[y][x] # WALL THEN "None"
        ELSE IF South = WALL THEN "wall_top"
        ELSE IF North = AIR THEN "stone"
        ELSE "wall"

\* ----------------------------------------------------- tile classifier
\* Map.__tilemap_maze, foreground part: the tile type of cell (x, y)
ForegroundType(m, width, height, border, x, y) ==
    LET at(nx, ny) == IF is_within_bounds(nx, ny, width, height)
                      THEN m[ny][nx] ELSE "unresolved"
        East  == at(x + 1, y)
        West  == at(x - 1, y)
        South == at(x, y + 1)
        North == at(x, y - 1)
    IN  IF y < border \/ y >= height - border THEN "wall_top"
        ELSE IF x < border \/ x >= width - border THEN "wall_top"
        ELSE IF y = border /\ m[y][x] = AIR THEN "wall"
        ELSE IF m[y][x] # WALL THEN "None"
        ELSE IF South = WALL THEN "wall_top"
        ELSE IF North = AIR THEN "stone"
        ELSE "wall"

\* Map.__tilemap_maze, background part: the tile type of cell (x, y)
BackgroundType(m, x, y) == IF m[y][x] = WALL THEN "stone_floor" ELSE "dirt_floor"

\* ForegroundVariation with West and East exchanged
ForegroundVariationMirrored(m, width, height, border, x, y) ==
    LET at(nx, ny) == IF is_within_bounds(nx, ny, width, height)
                      THEN m[ny][nx] ELSE "unresolved"
        East  == at(x - 1, y)
        West  == at(x + 1, y)
        South == at(x, y + 1)
        North == at(x, y - 1)
    IN  IF y < border \/ y >= height - border THEN -1
        ELSE IF x < border \/ x >= width - border THEN -1
        ELSE IF y = border /\ m[y][x] = AIR THEN 0
        ELSE IF m[y][x] # WALL THEN 0
        ELSE IF South = WALL THEN -1
        ELSE IF North = AIR THEN -1
        ELSE IF West = WALL THEN (IF East = WALL THEN 0 ELSE 1)
        ELSE IF East = WALL THEN 2 ELSE 3

\* Map.__tilemap_maze, foreground part: the variation of the code of cell
\* (x, y); -1 asks place_tile for any image of the type
ForegroundVariation(m, width, height, border, x, y) ==
    LET at(nx, ny) == IF is_within_bounds(nx, ny, width, height)
                      THEN m[ny][nx] ELSE "unresolved"
        East  == at(x + 1, y)
        West  == at(x - 1, y)
        South == at(x, y + 1)
        North == at(x, y - 1)
    IN  IF y < border \/ y >= height - border THEN -1
        ELSE IF x < border \/ x >= width - border THEN -1
        ELSE IF y = border /\ m[y][x] = AIR THEN 0
        ELSE IF m[y][x] # WALL THEN 0
        ELSE IF South = WALL THEN -1
        ELSE IF North = AIR THEN -1
        ELSE IF West = WALL THEN (IF East = WALL THEN 0 ELSE 1)
        ELSE IF East = WALL THEN 2 ELSE 3

\* the TileCode <<type, variation>> of a foreground cell
ForegroundCode(m, width, height, border, x, y) ==
    << ForegroundType(m, width, height, border, x, y),
       ForegroundVariation(m, width, height, border, x, y) >>

\* the weights of the background variations, in hundredths and accumulated:
\* [0.45, 0.25, 0.15, 0.15] for a Wall cell, [0.35, 0.35, 0.05, 0.05, 0.1, 0.1]
\* for any other
StoneFloorWeights == <<45, 70, 85, 100>>

DirtFloorWeights == <<35, 70, 75, 80, 90, 100>>

\* random.choices(variations, weights=weights, k=1)[0] for variations 0, 1, ...:
\* r is the draw of the random source, in hundredths (0..99)
Choice(weights, r) == Cardinality({ i \in DOMAIN weights : weights[i] <= r })

\* BackgroundCode that takes the variation of every cell from the six of dirt
BackgroundCodeSixWays(m, x, y, r) ==
    IF m[y][x] = WALL THEN <<"stone_floor", Choice(DirtFloorWeights, r)>>
    ELSE <<"dirt_floor", Choice(DirtFloorWeights, r)>>

\* Map.__tilemap_maze, background part: the code of cell (x, y) for the draw r
BackgroundCode(m, x, y, r) ==
    IF m[y][x] = WALL THEN <<"stone_floor", Choice(StoneFloorWeights, r)>>
    ELSE <<"dirt_floor", Choice(DirtFloorWeights, r)>>

\* The draws of one run of the random source: the k-th draw of the run, for
\* the run named by <<a, b>>
Draw(run, k) == (run[1] * k + run[2]) % 100

\* Map.__tilemap_maze: the two matrices of codes returned.  The background
\* cells are coded row by row, each with the next draw; the foreground takes
\* no draw.
background_tilemap(bg, width, height, run) ==
    [c \in (0..width - 1) \X (0..height - 1) |->
        BackgroundCode(bg, c[1], c[2], Draw(run, c[2] * width + c[1]))]

foreground_tilemap(fg, width, height, border) ==
    [c \in (0..width - 1) \X (0..height - 1) |->
        ForegroundCode(fg, width, height, border, c[1], c[2])]

\* a __tilemap_maze that draws the variation of a "wall" code too
tilemap_maze_drawn_walls(bg, fg, width, height, border, run) ==
    << background_tilemap(bg, width, height, run),
       [c \in (0..width - 1) \X (0..height - 1) |->
           LET code == ForegroundCode(fg, width, height, border, c[1], c[2])
           IN  IF code[1] = "wall"
               THEN <<"wall", Draw(run, c[2] * width + c[1]) % 4>>
               ELSE code] >>

\* Map.__tilemap_maze(backgorund, foreground): the pair returned, background
\* first, in the run of the random source named by run
tilemap_maze(bg, fg, width, height, border, run) ==
    << background_tilemap(bg, width, height, run),
       foreground_tilemap(fg, width, height, border) >>

\* The identity of the tile the gen-th generate call places on a cell of a
\* plane, and the image it is given; which of the images of the type is drawn
\* is not told apart.
GeneratedId(gen, plane, c) == <<gen, 0, plane, c>>

GeneratedImage(type) == <<type, "drawn">>

\* Map.generate: every classified foreground cell is placed collidable
ForegroundMatrix(gen, m, width, height, border) ==
    [c \in (0..width - 1) \X (0..height - 1) |->
        LET t == ForegroundType(m, width, height, border, c[1], c[2])
        IN  IF t = "None" THEN NoTile
            ELSE NewTile(GeneratedId(gen, "foreground", c), GeneratedImage(t),
                         c[1], c[2], t, TRUE)]

\* a generate that puts a background tile under every cell
BackgroundMatrixEverywhere(gen, fg, bg, width, height, border) ==
    [c \in (0..width - 1) \X (0..height - 1) |->
        LET b == BackgroundType(bg, c[1], c[2])
        IN  NewTile(GeneratedId(gen, "background", c), GeneratedImage(b),
                    c[1], c[2], b, FALSE)]

\* Map.generate: a background tile under every empty and every "stone"
\* foreground cell, placed with the default collidable = False
BackgroundMatrix(gen, fg, bg, width, height, border) ==
    [c \in (0..width - 1) \X (0..height - 1) |->
        LET t == ForegroundType(fg, width, height, border, c[1], c[2])
            b == BackgroundType(bg, c[1], c[2])
        IN  IF t = "None" \/ t = "stone"
            THEN NewTile(GeneratedId(gen, "background", c), GeneratedImage(b),
                         c[1], c[2], b, FALSE)
            ELSE NoTile]

\* the tiles a matrix holds
TilesOf(m) == { m[c] : c \in DOMAIN m } \ { NoTile }

\* ------------------------------------------------------------------ state
VARIABLES
    matrix_foreground,   \* Map.__matrix_foreground: cell -> tile or NoTile
    map_size,            \* <<width, height>> of the level grid, in tiles
    kind,                \* "entity" (MovingSprite._check_hit) or "projectile"
    targets,             \* hitboxes of the entities a projectile can strike
    pos,                 \* MovingSprite._pos, fixed point <<x, y>>
    collider,            \* MovingSprite._collider
    hitbox,              \* MovingSprite._hitbox
    pc,                  \* position inside _move: "idle", "x", "y", "error"
    direction,           \* the normalised direction of the running call
    distance_to_walk,    \* remaining distance per axis, fixed point
    collided,            \* the local of _move
    ret,                 \* result of the last completed call, "none" before
    call,                \* arguments and actor state at the start of the call
    tests,               \* collision and hit tests made by the running call
    met,                 \* what stopped an axis of the running call: "tile_x", "hit_y", ...
    last,                \* what the last sub-step did (see NoStep)
    moves,               \* completed or started _move calls
    health,              \* Entity._health of the moving actor
    target_life,         \* _health and _vulnerable of the entity in targets
    size,                \* Map.__size: <<rows, columns>>
    border_size,         \* Map.__border_size
    gpc,                 \* position inside generate: "create_maze", "carve", "polish",
                         \* "smooth", "tilemap", "done", "raised"
    raised,              \* the exception that ended generate, "none" otherwise
    maze,                \* the local maze of __create_maze / __smooth_maze, <<>> before
    stack,               \* the local stack of __create_maze
    carved,              \* the maze the while loop of __create_maze left, start marked; <<>> before
    foreground_maze,     \* the local of generate, <<>> before it is assigned
    background_maze,     \* the local of generate, <<>> before it is assigned
    smooth_call,         \* which __smooth_maze call of generate is running (1..3)
    smooth_i,            \* the loop index i of the running __smooth_maze call
    matrix_background,   \* Map.__matrix_background: cell -> tile or NoTile
    foreground_tiles,    \* Map.__foreground_tiles: the tiles of the SpriteGroup
    background_tiles,    \* Map.__background_tiles
    graphics,            \* Map.__graphics: tile type -> number of images stored
    generation,          \* how many generate calls have started
    ops,                 \* how many public operations were called after construction
    result,              \* the last public call: arguments, exception, value (see NoCall)
    effect,              \* what the last public call did to the level (see NoEffect)
    sprite_groups,       \* Sprite.__groups of every sprite: sprite -> set of groups
    item_set,            \* SpriteGroup._item_set of every group: group -> set of sprites
    group_call,          \* the last membership operation called (see NoGroupCall)
    group_ops,           \* how many membership operations were called
    player,              \* Game._player: health, invulnerability and dodge timers
    game,                \* Game: _game_over, _score, _score_time, enemies created and alive
    available,           \* the local available_tiles of Game._spawn_enemies
    spawn,               \* position inside _spawn_enemies and what it did (see NoSpawn)
    listed,              \* whether the projectile is in Game._entities
    frame                \* where Game.run stands in the frame: "update" or "check_deaths"

moveVars == <<kind, targets, pos, collider, hitbox, pc, direction,
              distance_to_walk, collided, ret, call, tests, met, last, moves,
              health, target_life>>

mapVars == <<matrix_foreground, map_size, size, border_size, gpc, raised, maze, stack, carved,
             foreground_maze, background_maze, smooth_call, smooth_i>>

levelVars == <<matrix_background, foreground_tiles, background_tiles, graphics,
               generation, ops, result, effect>>

groupVars == <<sprite_groups, item_set, group_call, group_ops>>

gameVars == <<player, game, available, spawn, listed, frame>>

\* The images the game loads for each tile type the generator uses
\* (Game loads one list of images per directory of tiles): type -> how many.
GameGraphics ==
    [t \in {"wall", "wall_top", "stone", "stone_floor", "dirt_floor", "None"} |->
        IF t = "wall" \/ t = "stone_floor" THEN 4
        ELSE IF t = "dirt_floor" THEN 6
        ELSE IF t = "None" THEN 1
        ELSE 2]

\* no public call made yet; op names the operation, pos, plane and arg its
\* arguments, raised the exception it ended with, tile and tiles what it
\* returned or created
NoCall == [op |-> "none", pos |-> <<0, 0>>, plane |-> "foreground", arg |-> <<>>,
           raised |-> "none", tile |-> NoTile, tiles |-> {}]

\* changed: the call altered a plane matrix or a plane tile set;
\* again: the call before it was the same operation with the same arguments
NoEffect == [changed |-> FALSE, again |-> FALSE]
\* ------------------------------------------------- sprites and groups
\* The sprites of the membership model and the class of each: a Tile is a Sprite
\* that is not an Entity, an enemy and the player are Entities.
Sprites == { "tile", "enemy", "player" }

\* Entity is a subclass of MovingSprite, itself a subclass of Sprite
SpriteClass(s) == IF s = "tile" THEN "Tile" ELSE "Entity"

\* The groups: a SpriteGroup (which takes any Sprite) and an EntityManager
SpriteGroups == { "tiles", "entities" }

\* SpriteGroup._internal_type: Sprite as the constructor sets it, Entity for an
\* EntityManager
internal_type(g) == IF g = "entities" THEN "Entity" ELSE "Sprite"

\* isinstance(item, self._internal_type)
IsInstance(s, type) == type = "Sprite" \/ SpriteClass(s) = type

\* the last membership operation: its name, receiver, argument, exception
NoGroupCall == [op |-> "none", sprite |-> "none", group |-> "none", raised |-> "none"]

\* Sprites and groups constructed without arguments: no memberships
NoGroups ==
    /\ sprite_groups = [s \in Sprites |-> {}]
    /\ item_set = [g \in SpriteGroups |-> {}]
    /\ group_call = NoGroupCall
    /\ group_ops = 0

\* The memberships as one value the operations transform: groups is
\* Sprite.__groups per sprite, items is SpriteGroup._item_set per group, raised
\* is the exception that left the call, "none" when it returned.
Memberships == [groups |-> sprite_groups, items |-> item_set, raised |-> "none"]

RECURSIVE add_to(_, _, _)
RECURSIVE add(_, _, _)
RECURSIVE remove_from(_, _, _)
RECURSIVE remove(_, _, _)

\* Sprite.add_to(group): a group not yet listed is listed, then group.add(self)
add_to(m, s, g) ==
    IF g \notin m.groups[s]
    THEN add([m EXCEPT !.groups[s] = @ \cup {g}], g, s)
    ELSE m

\* SpriteGroup.add(item): an item of the internal type is put in the set, then
\* item.add_to(self); any other item raises TypeError
add(m, g, s) ==
    IF IsInstance(s, internal_type(g))
    THEN add_to([m EXCEPT !.items[g] = @ \cup {s}], s, g)
    ELSE [m EXCEPT !.raised = "TypeError"]

\* Sprite.remove_internal(group)
sprite_remove_internal(m, s, g) ==
    IF g \in m.groups[s] THEN [m EXCEPT !.groups[s] = @ \ {g}] ELSE m

\* Sprite.remove_from(group): a listed group is unlisted, then group.remove(self)
remove_from(m, s, g) ==
    IF g \in m.groups[s]
    THEN remove([m EXCEPT !.groups[s] = @ \ {g}], g, s)
    ELSE m

\* SpriteGroup.has(item)
has(m, g, s) == s \in m.items[g]

\* SpriteGroup.remove_internal(item)
group_remove_internal(m, g, s) ==
    IF has(m, g, s) THEN [m EXCEPT !.items[g] = @ \ {s}] ELSE m

\* SpriteGroup.remove(item): a held item is taken out, then item.remove_from(self)
remove(m, g, s) ==
    IF has(m, g, s)
    THEN remove_from([m EXCEPT !.items[g] = @ \ {s}], s, g)
    ELSE m

\* Sprite.kill(): group.remove_internal(self) for every listed group, then the
\* list is cleared
kill(m, s) ==
    [m EXCEPT !.items = [g \in DOMAIN m.items |->
                            IF g \in m.groups[s]
                            THEN group_remove_internal(m, g, s).items[g]
                            ELSE m.items[g]],
              !.groups[s] = {}]

\* SpriteGroup.empty(): item.remove_internal(self) for every held item, then
\* the set is cleared
empty(m, g) ==
    [m EXCEPT !.groups = [s \in DOMAIN m.groups |->
                             IF s \in m.items[g]
                             THEN sprite_remove_internal(m, s, g).groups[s]
                             ELSE m.groups[s]],
              !.items[g] = {}]

\* ------------------------------------------------- rooms used for movement
\* A maze matrix of the given size whose border margin is Wall and whose
\* interior is Air except for the cells in walls.
RoomMaze(width, height, walls) ==
    [y \in 0..height - 1 |-> [x \in 0..width - 1 |->
        IF \/ x < BorderSize \/ x >= width - BorderSize
           \/ y < BorderSize \/ y >= height - BorderSize
           \/ <<x, y>> \in walls
        THEN WALL ELSE AIR]]

RoomWidth == 4 + 2 * BorderSize

RoomHeight == 4 + 2 * BorderSize

\* interior wall cells of the rooms: empty room, a pillar, a two-cell wall
RoomLayouts == { {}, {<<4, 4>>}, {<<3, 4>>, <<3, 5>>} }

\* images of moving sprites: <<kind, width, height>>
ActorImages == { <<"entity", 16, 16>>, <<"entity", 32, 32>>,
                 <<"projectile", 8, 8>>, <<"projectile", 4, 4>> }

StartCells == { <<2, 3>>, <<4, 3>> }

\* direction arguments of _move (not normalised) and distances (fixed point)
DirectionArgs == { <<0, 0>>, <<1, 0>>, <<-1, 0>>, <<0, 1>>, <<0, -1>>,
                   <<3, 4>>, <<-4, -3>> }

DistanceArgs == { 0, 25, 130, 1000 * Scale }

\* hitboxes of the target entities of a projectile: none, or one entity of
\* the tile's size standing on cell (3, 3)
TargetSets == { {}, { Inflate(Rect(3 * TileSize, 3 * TileSize, TileSize, TileSize),
                              -HitboxInset, -HitboxInset) } }

\* ---------------------------------------------------------- MovingSprite
\* MovingSprite.__init__: collider from the image at pos, hitbox inset
NewCollider(px, py, w, h) == Rect(px, py, w, h)

NewHitbox(c) == Inflate(c, -HitboxInset, -HitboxInset)

\* MovingSprite.tile_pos
tile_pos(p) == <<p[1] \div (TileSize * Scale), p[2] \div (TileSize * Scale)>>
\* a square search whose ranges stop one cell short on the far side
get_tiles_square_short(m, msize, tp, radius) ==
    { m[c] : c \in { d \in ((tp[1] - radius[1])..(tp[1] + radius[1] - 1))
                           \X ((tp[2] - radius[2])..(tp[2] + radius[2] - 1)) :
                       /\ is_within_bounds(d[1], d[2], msize[1], msize[2])
                       /\ m[d] # NoTile } }

\* Map.get_tiles_square, lines 125-138, on the matrix m of a plane: the two
\* range loops over x_min..x_max - 1 and y_min..y_max - 1 with radius
\* <<rx, ry>>, the bounds filter and the isinstance(tile, Tile) filter
get_tiles_square(m, msize, tp, radius) ==
    { m[c] : c \in { d \in ((tp[1] - radius[1])..(tp[1] + radius[1]))
                           \X ((tp[2] - radius[2])..(tp[2] + radius[2])) :
                       /\ is_within_bounds(d[1], d[2], msize[1], msize[2])
                       /\ m[d] # NoTile } }

\* the default radius = 1 of get_tiles_square, made a pair by line 121
DefaultRadius == <<1, 1>>

\* MovingSprite._get_obstacles
get_obstacles(m, msize, p) ==
    { t \in get_tiles_square(m, msize, tile_pos(p), DefaultRadius) : t.collidable = TRUE }

\* pygame.Vector2.normalize, in fixed point
Normalize(d) ==
    LET mag == Isqrt(d[1] * d[1] + d[2] * d[2])
    IN  IF mag > 0 THEN <<(d[1] * Scale) \div mag, (d[2] * Scale) \div mag>>
        ELSE <<0, 0>>

\* Snap that also aligns the collider with the tile on the other axis
SnapBothAxes(axis, c, t, d) ==
    IF axis = "horizontal"
    THEN IF d[1] > 0 THEN [c EXCEPT !.x = t.x - c.w, !.y = t.y]
         ELSE IF d[1] < 0 THEN [c EXCEPT !.x = Right(t), !.y = t.y]
         ELSE c
    ELSE IF d[2] > 0 THEN [c EXCEPT !.y = t.y - c.h, !.x = t.x]
         ELSE IF d[2] < 0 THEN [c EXCEPT !.y = Bottom(t), !.x = t.x]
         ELSE c

\* Snap with the two edges exchanged: the collider is put on the far side
SnapFarEdge(axis, c, t, d) ==
    IF axis = "horizontal"
    THEN IF d[1] > 0 THEN [c EXCEPT !.x = Right(t)]
         ELSE IF d[1] < 0 THEN [c EXCEPT !.x = t.x - c.w]
         ELSE c
    ELSE IF d[2] > 0 THEN [c EXCEPT !.y = Bottom(t)]
         ELSE IF d[2] < 0 THEN [c EXCEPT !.y = t.y - c.h]
         ELSE c

\* MovingSprite.__colision, one obstacle: collider.right = tile.left (moving
\* right), collider.left = tile.right (moving left), likewise bottom and top
Snap(axis, c, t, d) ==
    IF axis = "horizontal"
    THEN IF d[1] > 0 THEN [c EXCEPT !.x = t.x - c.w]
         ELSE IF d[1] < 0 THEN [c EXCEPT !.x = Right(t)]
         ELSE c
    ELSE IF d[2] > 0 THEN [c EXCEPT !.y = t.y - c.h]
         ELSE IF d[2] < 0 THEN [c EXCEPT !.y = Bottom(t)]
         ELSE c

\* The loop of __colision over the obstacle set, whose iteration order is
\* not fixed: every collider the loop can end with.
RECURSIVE SnapOrders(_, _, _, _)
SnapOrders(axis, c, tiles, d) ==
    IF tiles = {} THEN {c}
    ELSE UNION { SnapOrders(axis,
                            IF colliderect(c, t.collider)
                            THEN Snap(axis, c, t.collider, d) ELSE c,
                            tiles \ {t}, d) : t \in tiles }

\* MovingSprite.__colision: the colliders it can leave.  A tile that overlaps
\* neither the collider nor any position a snap can put it in is skipped in
\* every order, so only the others are permuted.
colision(axis, c, tiles, d) ==
    LET places == {c} \cup { Snap(axis, c, t.collider, d) : t \in tiles }
        live   == { t \in tiles : \E p \in places : colliderect(p, t.collider) }
    IN  SnapOrders(axis, c, live, d)

\* TileTestRect testing the hitbox instead
TileTestRectHitbox(c, h) == h

\* the rectangle whose overlap with a tile makes __colision report a collision
TileTestRect(c, h) == c

\* the result of __colision: some obstacle overlapped and the axis is moving
colision_found(axis, c, h, tiles, d) ==
    /\ \E t \in tiles : colliderect(TileTestRect(c, h), t.collider)
    /\ IF axis = "horizontal" THEN d[1] # 0 ELSE d[2] # 0

\* Entity.__init__, _max_health, and the damage of the game's projectiles
MaxHealth == 6

Damage == 1

\* times are whole milliseconds (Main.run: dt = clock.tick(60) / 1000)
\* Entity.__init__, _grace_time = 0.25
GraceTime == 250

\* Entity.__init__: full health, vulnerable
NewLife == [health |-> MaxHealth, vulnerable |-> TRUE, invulnerable_time |-> 0,
            grace_time |-> GraceTime]

\* take_damage that does not look at _vulnerable
take_damage_always(life, ammount) ==
    [life EXCEPT !.health = @ - ammount, !.vulnerable = FALSE,
                 !.invulnerable_time = life.grace_time]

\* Entity.take_damage, the health part: nothing unless vulnerable
take_damage(life, ammount) ==
    IF life.vulnerable = TRUE
    THEN [life EXCEPT !.health = @ - ammount, !.vulnerable = FALSE,
                      !.invulnerable_time = life.grace_time]
    ELSE life

\* Projectyle.update after its _move returned moved; the other entities do
\* not touch their health when they move
update(k, h, moved) == IF k = "projectile" /\ moved = TRUE THEN -1 ELSE h

\* Player.__init__, in milliseconds
PlayerGraceTime == 1000

DodgeCooldown == 1200

AirTime == 400

\* Game.__init__, _score_cooldown and _score_time
ScoreCooldown == 1000

\* Player.__init__: an Entity with its own grace time and the dodge fields;
\* since is the update time elapsed after the last loss of health and gap the
\* value since had at that loss, both counted up to the grace time only
NewPlayer ==
    [health |-> MaxHealth, vulnerable |-> TRUE, invulnerable_time |-> 0,
     grace_time |-> PlayerGraceTime, dodging |-> FALSE, dodge_released |-> TRUE,
     dodge_time |-> 0, since |-> PlayerGraceTime, gap |-> PlayerGraceTime]

\* Game.__init__: no enemy yet; spawned counts the enemies _spawn_enemies
\* created and enemies those still in Game._enemies
NewGame ==
    [game_over |-> FALSE, score |-> 0, score_time |-> ScoreCooldown, spawned |-> 0,
     enemies |-> 0]

\* _spawn_enemies not called
NoSpawn == [pc |-> "idle", player_tile |-> <<0, 0>>, picks |-> 0, candidates |-> 0,
            tile |-> NoTile, pos |-> <<0, 0>>]

NoGame ==
    /\ player = NewPlayer
    /\ game = NewGame
    /\ available = {}
    /\ spawn = NoSpawn
    /\ listed = FALSE
    /\ frame = "update"

\* MovingSprite._check_hit (its entities are _get_entities(), empty in the
\* base class) and Projectyle._check_hit (its targets)
check_hit(k, h, tg) ==
    LET entities == IF k = "projectile" THEN tg ELSE {}
    IN  \E e \in entities : colliderect(h, e)

\* StepLength that always advances a whole step, also when less remains
StepLengthWhole(step, dirc, left) ==
    IF left - step * Abs(dirc) < 0 THEN [adv |-> step * dirc, left |-> 0]
    ELSE [adv |-> step * dirc, left |-> left - step * Abs(dirc)]

\* the sub-step of one axis: at most the hitbox dimension, or what remains
StepLength(step, dirc, left) ==
    IF left - step * Abs(dirc) < 0 THEN [adv |-> Sign(dirc) * left, left |-> 0]
    ELSE [adv |-> step * dirc, left |-> left - step * Abs(dirc)]

\* every tile of the foreground plane
AllTiles(m) == { m[c] : c \in DOMAIN m } \ {NoTile}

\* bookkeeping of a sub-step: the axis, the signed advance, the collider and
\* hitbox right after the advance, whether a tile or a dynamic target stopped
\* it, whether the advanced collider / hitbox overlapped an obstacle of the
\* lookup, the cells of the obstacles the advanced collider ran into, and
\* whether a collidable tile under the advanced collider was outside the lookup
NoStep == [axis |-> "none", adv |-> 0, tile |-> FALSE, hit |-> FALSE, unseen |-> FALSE,
           colliderOver |-> FALSE, hitboxOver |-> FALSE, ran |-> {}]

StepInfo(axis, adv, c1, h1, obst, tile, hit) ==
    [axis |-> axis, adv |-> adv, tile |-> tile, hit |-> hit, pre |-> c1, preHitbox |-> h1,
     colliderOver |-> \E t \in obst : colliderect(c1, t.collider),
     hitboxOver |-> \E t \in obst : colliderect(h1, t.collider),
     ran |-> { t.cell : t \in { u \in obst : colliderect(c1, u.collider) } },
     unseen |-> \E t \in AllTiles(matrix_foreground) \ obst :
                    t.collidable /\ colliderect(c1, t.collider)]

\* MovingSprite._move, the horizontal part of one loop iteration: every
\* state it can leave (one, unless the obstacle order matters)
HorizontalStep ==
    LET st   == StepLength(hitbox.w, direction[1], distance_to_walk[1])
        p1   == <<pos[1] + st.adv, pos[2]>>
        c1   == [collider EXCEPT !.x = Round(p1[1])]
        h1   == [hitbox EXCEPT !.x = Round(p1[1])]
        tp   == tile_pos(p1)
        obst == get_obstacles(matrix_foreground, map_size, p1)
        base == [pos |-> p1, collider |-> c1, hitbox |-> h1,
                 left |-> <<st.left, distance_to_walk[2]>>,
                 collided |-> collided, tests |-> tests, error |-> FALSE,
                 last |-> StepInfo("x", st.adv, c1, h1, {}, FALSE, FALSE)]
    IN  IF ~is_within_bounds(tp[1], tp[2], map_size[1], map_size[2])
        THEN { [base EXCEPT !.error = TRUE] }           \* IndexError of get_tiles_square
        ELSE IF colision_found("horizontal", c1, h1, obst, direction)
        THEN { [base EXCEPT !.collider = c2, !.pos = <<c2.x * Scale, pos[2]>>,
                            !.left = <<0, distance_to_walk[2]>>,
                            !.collided = TRUE, !.tests = [tests EXCEPT !.colision = TRUE],
                            !.last = StepInfo("x", st.adv, c1, h1, obst, TRUE, FALSE)]
               : c2 \in colision("horizontal", c1, obst, direction) }
        ELSE LET hit == check_hit(kind, h1, targets)
             IN  { [base EXCEPT !.left = <<IF hit THEN 0 ELSE st.left, distance_to_walk[2]>>,
                                !.collided = collided \/ hit,
                                !.tests = [colision |-> TRUE, hit |-> TRUE],
                                !.last = StepInfo("x", st.adv, c1, h1, obst, FALSE, hit)] }

\* MovingSprite._move, the vertical part of one loop iteration
VerticalStep ==
    LET st   == StepLength(hitbox.h, direction[2], distance_to_walk[2])
        p1   == <<pos[1], pos[2] + st.adv>>
        c1   == [collider EXCEPT !.y = Round(p1[2])]
        h1   == [hitbox EXCEPT !.y = Round(p1[2])]
        tp   == tile_pos(p1)
        obst == get_obstacles(matrix_foreground, map_size, p1)
        base == [pos |-> p1, collider |-> c1, hitbox |-> h1,
                 left |-> <<distance_to_walk[1], st.left>>,
                 collided |-> collided, tests |-> tests, error |-> FALSE,
                 last |-> StepInfo("y", st.adv, c1, h1, {}, FALSE, FALSE)]
    IN  IF ~is_within_bounds(tp[1], tp[2], map_size[1], map_size[2])
        THEN { [base EXCEPT !.error = TRUE] }
        ELSE IF colision_found("vertical", c1, h1, obst, direction)
        THEN { [base EXCEPT !.collider = c2, !.pos = <<pos[1], c2.y * Scale>>,
                            !.left = <<distance_to_walk[1], 0>>,
                            !.collided = TRUE, !.tests = [tests EXCEPT !.colision = TRUE],
                            !.last = StepInfo("y", st.adv, c1, h1, obst, TRUE, FALSE)]
               : c2 \in colision("vertical", c1, obst, direction) }
        ELSE LET hit == check_hit(kind, h1, targets)
             IN  { [base EXCEPT !.left = <<distance_to_walk[1], IF hit THEN 0 ELSE st.left>>,
                                !.collided = collided \/ hit,
                                !.tests = [colision |-> TRUE, hit |-> TRUE],
                                !.last = StepInfo("y", st.adv, c1, h1, obst, FALSE, hit)] }

NoTests == [colision |-> FALSE, hit |-> FALSE]

\* ----------------------------------------------------------------- actions
\* MovingSprite.__init__ of an actor placed on a free cell of a generated room
InitMove ==
    /\ map_size = <<RoomWidth, RoomHeight>>
    /\ size = <<RoomHeight, RoomWidth>>
    /\ border_size = BorderSize
    /\ \E walls \in RoomLayouts :
         /\ foreground_maze = RoomMaze(RoomWidth, RoomHeight, walls)
         /\ matrix_foreground =
               ForegroundMatrix(1, foreground_maze, RoomWidth, RoomHeight, BorderSize)
    /\ background_maze = foreground_maze
    /\ matrix_background =
          BackgroundMatrix(1, foreground_maze, background_maze, RoomWidth, RoomHeight,
                           BorderSize)
    /\ foreground_tiles = TilesOf(matrix_foreground)
    /\ background_tiles = TilesOf(matrix_background)
    /\ graphics = GameGraphics
    /\ generation = 1
    /\ ops = 0
    /\ result = NoCall
    /\ effect = NoEffect
    /\ NoGroups
    /\ NoGame
    /\ maze = foreground_maze
    /\ stack = <<>>
    /\ carved = <<>>
    /\ gpc = "done"
    /\ raised = "none"
    /\ smooth_call = 3
    /\ smooth_i = 0
    /\ \E img \in ActorImages, cell \in StartCells :
         /\ kind = img[1]
         /\ pos = <<cell[1] * TileSize * Scale, cell[2] * TileSize * Scale>>
         /\ collider = NewCollider(cell[1] * TileSize, cell[2] * TileSize, img[2], img[3])
         /\ hitbox = NewHitbox(collider)
         /\ \A t \in AllTiles(matrix_foreground) : ~colliderect(collider, t.collider)
    /\ targets \in IF kind = "projectile" THEN TargetSets ELSE { {} }
    /\ pc = "idle"
    /\ direction = <<0, 0>>
    /\ distance_to_walk = <<0, 0>>
    /\ collided = FALSE
    /\ ret = "none"
    /\ call = [distance |-> 0, direction |-> <<0, 0>>, pos |-> pos,
               collider |-> collider, hitbox |-> hitbox]
    /\ tests = NoTests
    /\ met = {}
    /\ last = NoStep
    /\ moves = 0
    /\ health = MaxHealth
    /\ target_life = NewLife

\* MovingSprite._move, lines 235-236: normalised unless of zero magnitude
MoveDirection(dirArg) ==
    IF Isqrt(dirArg[1] * dirArg[1] + dirArg[2] * dirArg[2]) > 0
    THEN Normalize(dirArg) ELSE dirArg

\* WalkDistance that forgets the direction: the whole distance on both axes
WalkDistanceRaw(nd, distance) == <<Abs(distance), Abs(distance)>>

\* MovingSprite._move, lines 238-240: the distance to walk on each axis
WalkDistance(nd, distance) ==
    <<Abs(nd[1] * distance) \div Scale, Abs(nd[2] * distance) \div Scale>>

\* MovingSprite._move, lines 233-244: the setup, and the loop test that ends
\* the call at once when nothing is to be walked
Move(distance, dirArg) ==
    /\ pc = "idle"
    /\ moves < MaxMoves
    /\ LET nd  == MoveDirection(dirArg)
           dtw == WalkDistance(nd, distance)
       IN  /\ direction' = nd
           /\ distance_to_walk' = dtw
           /\ pc' = IF dtw = <<0, 0>> THEN "idle" ELSE "x"
           /\ ret' = IF dtw = <<0, 0>> THEN FALSE ELSE "running"
    /\ collided' = FALSE
    /\ tests' = NoTests
    /\ met' = {}
    /\ last' = NoStep
    /\ call' = [distance |-> distance, direction |-> dirArg, pos |-> pos,
                collider |-> collider, hitbox |-> hitbox]
    /\ moves' = moves + 1
    /\ UNCHANGED <<kind, targets, pos, collider, hitbox, health, target_life>>
    /\ UNCHANGED mapVars
    /\ UNCHANGED levelVars
    /\ UNCHANGED groupVars
    /\ UNCHANGED gameVars

\* MovingSprite._move, lines 246-259
StepX ==
    /\ pc = "x"
    /\ IF distance_to_walk[1] = 0
       THEN /\ pc' = "y"
            /\ last' = NoStep
            /\ UNCHANGED <<pos, collider, hitbox, distance_to_walk, collided, tests, met,
                           target_life>>
       ELSE \E o \in HorizontalStep :
            /\ pos' = o.pos
            /\ collider' = o.collider
            /\ hitbox' = o.hitbox
            /\ distance_to_walk' = o.left
            /\ collided' = o.collided
            /\ tests' = o.tests
            /\ last' = o.last
            /\ met' = met \cup (IF o.last.tile THEN {"tile_x"} ELSE {})
                           \cup (IF o.last.hit THEN {"hit_x"} ELSE {})
            /\ target_life' = IF o.last.hit THEN take_damage(target_life, Damage)
                              ELSE target_life
            /\ pc' = IF o.error THEN "error" ELSE "y"
    /\ UNCHANGED <<kind, targets, direction, ret, call, moves, health>>
    /\ UNCHANGED mapVars
    /\ UNCHANGED levelVars
    /\ UNCHANGED groupVars
    /\ UNCHANGED gameVars

\* MovingSprite._move, lines 262-277: the vertical part, then the loop test
\* and the return; the return of a projectile's _move is the end of
\* Projectyle.update, which marks the projectile dead when it is True
StepY ==
    /\ pc = "y"
    /\ IF distance_to_walk[2] = 0
       THEN /\ pc' = IF distance_to_walk = <<0, 0>> THEN "idle" ELSE "x"
            /\ ret' = IF distance_to_walk = <<0, 0>> THEN collided ELSE ret
            /\ health' = IF distance_to_walk = <<0, 0>> THEN update(kind, health, collided)
                         ELSE health
            /\ last' = NoStep
            /\ UNCHANGED <<pos, collider, hitbox, distance_to_walk, collided, tests, met,
                           target_life>>
       ELSE \E o \in VerticalStep :
            /\ pos' = o.pos
            /\ collider' = o.collider
            /\ hitbox' = o.hitbox
            /\ distance_to_walk' = o.left
            /\ collided' = o.collided
            /\ tests' = o.tests
            /\ last' = o.last
            /\ met' = met \cup (IF o.last.tile THEN {"tile_y"} ELSE {})
                           \cup (IF o.last.hit THEN {"hit_y"} ELSE {})
            /\ target_life' = IF o.last.hit THEN take_damage(target_life, Damage)
                              ELSE target_life
            /\ pc' = IF o.error THEN "error"
                     ELSE IF o.left = <<0, 0>> THEN "idle" ELSE "x"
            /\ ret' = IF ~o.error /\ o.left = <<0, 0>> THEN o.collided ELSE ret
            /\ health' = IF ~o.error /\ o.left = <<0, 0>>
                         THEN update(kind, health, o.collided) ELSE health
    /\ UNCHANGED <<kind, targets, direction, call, moves>>
    /\ UNCHANGED mapVars
    /\ UNCHANGED levelVars
    /\ UNCHANGED groupVars
    /\ UNCHANGED gameVars

\* ======================================================== map generation
\* Map.generate reads Map.__size and Map.__border_size; the configurations
\* explored are small maps of both parities, square and not
MapSizes == { <<5, 6>>, <<6, 5>>, <<6, 6>>, <<8, 6>>, <<10, 10>>, <<12, 12>>,
              <<12, 14>>, <<14, 14>> }

BorderSizes == { 0, 1, 2, 4 }

\* a larger map, explored with the border size of Map.__init__ only, and up
\* to the polished maze of __create_maze
LargeMapSizes == { <<16, 16>> }

\* Map.width, Map.height
MapWidth == size[2]

MapHeight == size[1]

\* __create_maze: width, height = int(self.width / 2), int(self.height / 2)
HalfWidth == MapWidth \div 2

HalfHeight == MapHeight \div 2

\* __create_maze: border = int(self.__border_size / 2)
HalfBorder == border_size \div 2

\* the parity test that omits the border
ParityErrorSizeOnly(sz, border) == sz[1] % 2 # 0 \/ sz[2] % 2 # 0

\* __create_maze: the two tests that raise ValueError
ParityError(sz, border) == sz[1] % 2 # 0 \/ sz[2] % 2 # 0 \/ border % 2 # 0

\* a list index that raises IndexError on a list of length n
IndexRaises(i, n) == i < -n \/ i >= n

WallGrid(w, h) == [y \in 0..h - 1 |-> [x \in 0..w - 1 |-> WALL]]

\* __create_maze: directions, as (dy, dx); random.shuffle makes the order free
directions == { <<1, 0>>, <<-1, 0>>, <<0, 1>>, <<0, -1>> }

\* the carver started from the first cell inside the margin
StartCellCorner(w, h) == <<1, 1>>

\* __create_maze: sx, sy
StartCell(w, h) == <<w \div 2, h \div 2>>

\* __create_maze: the directions whose cell two steps away is inside and Wall
Unvisited(m, w, h, c) ==
    { d \in directions :
        LET nx == c[1] + d[2] * 2
            ny == c[2] + d[1] * 2
        IN  is_within_bounds(nx, ny, w, h) /\ m[ny][nx] = WALL }

\* __create_maze and __smooth_maze: adjacent_directions, as (dy, dx), in order
adjacent_directions ==
    << <<0, 1>>, <<0, -1>>, <<1, 0>>, <<1, 1>>, <<0, -1>>, <<-1, 0>>, <<-1, 1>>, <<-1, -1>> >>

\* the cell reached from (x, y) by the i-th adjacent direction
Adjacent(x, y, i) == <<x + adjacent_directions[i][2], y + adjacent_directions[i][1]>>

\* __create_maze, lines 399-407: the cells the polishing pass walls
InMargin(x, y, w, h, border) ==
    y < border \/ y >= h - border \/ x < border \/ x >= w - border

\* __create_maze, lines 409-421: a Hole outside the margin opens the cell at
\* (x, y) when that cell is adjacent to it and inside the margin's rectangle
WidenedBy(m, w, h, border, x, y) ==
    /\ is_within_bounds(x - border, y - border, w - border * 2, h - border * 2)
    /\ \E i \in DOMAIN adjacent_directions :
         LET cx == x - adjacent_directions[i][2]
             cy == y - adjacent_directions[i][1]
         IN  /\ is_within_bounds(cx, cy, w, h)
             /\ ~InMargin(cx, cy, w, h, border)
             /\ m[cy][cx] = HOLE

\* __create_maze, lines 399-422: the maze the polishing pass leaves.  The pass
\* walls the margin, and outside it turns every Hole, and every Wall a Hole
\* widens, into Air; it makes no Hole, so its row-major order has no effect.
Polished(m, w, h, border) ==
    [y \in 0..h - 1 |-> [x \in 0..w - 1 |->
        IF InMargin(x, y, w, h, border) THEN WALL
        ELSE IF m[y][x] = HOLE THEN AIR
        ELSE IF m[y][x] = WALL /\ WidenedBy(m, w, h, border, x, y) THEN AIR
        ELSE m[y][x]]]

\* the border part of the polishing pass alone: the margin is walled, nothing
\* is widened
Bordered(m, w, h, border) ==
    [y \in 0..h - 1 |-> [x \in 0..w - 1 |->
        IF InMargin(x, y, w, h, border) THEN WALL ELSE m[y][x]]]

\* Expand that copies a cell to the first cell of its block only
ExpandCorner(m, w, h) ==
    [fy \in 0..h * 2 - 1 |-> [fx \in 0..w * 2 - 1 |->
        IF fy % 2 = 0 /\ fx % 2 = 0 THEN m[fy \div 2][fx \div 2] ELSE WALL]]

\* __create_maze: the half-resolution maze copied to 2x2 blocks
Expand(m, w, h) ==
    [fy \in 0..h * 2 - 1 |-> [fx \in 0..w * 2 - 1 |-> m[fy \div 2][fx \div 2]]]

\* generate: the arguments of the three __smooth_maze calls
SmoothCalls ==
    << [ammount |-> 3, stop_air |-> 6, stop_wall |-> 10, air_neighbors |-> 4, wall_neighbors |-> 0],
       [ammount |-> 5, stop_air |-> 7, stop_wall |-> 10, air_neighbors |-> 3, wall_neighbors |-> 0],
       [ammount |-> 3, stop_air |-> 0, stop_wall |-> 4, air_neighbors |-> 6, wall_neighbors |-> 2] >>

\* __smooth_maze: the neighbour counts of a cell; outside the map counts as Wall
wall_count(m, w, h, x, y) ==
    Cardinality({ i \in DOMAIN adjacent_directions :
        LET n == Adjacent(x, y, i)
        IN  IF is_within_bounds(n[1], n[2], w, h) THEN m[n[2]][n[1]] = WALL ELSE TRUE })

air_count(m, w, h, x, y) ==
    Cardinality({ i \in DOMAIN adjacent_directions :
        LET n == Adjacent(x, y, i)
        IN  is_within_bounds(n[1], n[2], w, h) /\ m[n[2]][n[1]] = AIR })

\* SmoothSkips that skips the border rows only
SmoothSkipsRows(x, y, w, h, border) == y < border \/ y >= h - border

\* __smooth_maze: the cells an iteration skips ("Pula as bordas")
SmoothSkips(x, y, w, h, border) ==
    y < border \/ y >= h - border \/ x < border \/ x >= w - border

\* __smooth_maze: the Air cells that draw for becoming Wall, the Wall cells
\* that draw for becoming Air
CanWall(m, w, h, border, p) ==
    { c \in (0..w - 1) \X (0..h - 1) :
        /\ ~SmoothSkips(c[1], c[2], w, h, border)
        /\ m[c[2]][c[1]] = AIR
        /\ wall_count(m, w, h, c[1], c[2]) >= p.wall_neighbors }

CanAir(m, w, h, border, p) ==
    { c \in (0..w - 1) \X (0..h - 1) :
        /\ ~SmoothSkips(c[1], c[2], w, h, border)
        /\ m[c[2]][c[1]] = WALL
        /\ air_count(m, w, h, c[1], c[2]) >= p.air_neighbors }

\* random.randint(1, 10) >= stop: a draw of 10 passes a stop of 10
DrawCanPassInclusive(stop) == stop <= 10

\* random.randint(1, 10) > stop: impossible from 10 up, certain below 1
DrawCanPass(stop) == stop < 10

DrawMustPass(stop) == stop < 1

\* the cells whose outcome in an iteration is random, and those that flip surely
Draws(m, w, h, border, p) ==
    (IF DrawCanPass(p.stop_wall) /\ ~DrawMustPass(p.stop_wall)
     THEN CanWall(m, w, h, border, p) ELSE {})
    \cup (IF DrawCanPass(p.stop_air) /\ ~DrawMustPass(p.stop_air)
          THEN CanAir(m, w, h, border, p) ELSE {})

Forced(m, w, h, border, p) ==
    (IF DrawMustPass(p.stop_wall) THEN CanWall(m, w, h, border, p) ELSE {})
    \cup (IF DrawMustPass(p.stop_air) THEN CanAir(m, w, h, border, p) ELSE {})
\* Flip written into the matrix being read: a Wall cell whose left neighbour
\* was opened in the same iteration sees that neighbour Open and opens too
FlipInPlace(m, w, h, flips) ==
    [y \in 0..h - 1 |-> [x \in 0..w - 1 |->
        IF <<x, y>> \in flips THEN (IF m[y][x] = AIR THEN WALL ELSE AIR)
        ELSE IF m[y][x] = WALL /\ <<x - 1, y>> \in flips /\ m[y][x - 1] = WALL THEN AIR
        ELSE m[y][x]]]

\* temp_maze after an iteration in which the cells of flips changed
Flip(m, w, h, flips) ==
    [y \in 0..h - 1 |-> [x \in 0..w - 1 |->
        IF <<x, y>> \in flips THEN (IF m[y][x] = AIR THEN WALL ELSE AIR) ELSE m[y][x]]]

\* ------------------------------------------------- actions of generation
\* Map.__init__ up to the call of __create_maze in generate; no actor yet
InitGenerate ==
    /\ \/ size \in MapSizes /\ border_size \in BorderSizes
       \/ size \in LargeMapSizes /\ border_size = BorderSize
    /\ map_size = <<size[2], size[1]>>
    /\ matrix_foreground = [c \in (0..size[2] - 1) \X (0..size[1] - 1) |-> NoTile]
    /\ matrix_background = matrix_foreground
    /\ foreground_tiles = {}
    /\ background_tiles = {}
    /\ graphics = GameGraphics
    /\ generation = 1
    /\ ops = 0
    /\ result = NoCall
    /\ effect = NoEffect
    /\ NoGroups
    /\ NoGame
    /\ gpc = "create_maze"
    /\ raised = "none"
    /\ maze = <<>>
    /\ stack = <<>>
    /\ carved = <<>>
    /\ foreground_maze = <<>>
    /\ background_maze = <<>>
    /\ smooth_call = 1
    /\ smooth_i = 0
    /\ kind = "none"
    /\ targets = {}
    /\ pos = <<0, 0>>
    /\ collider = Rect(0, 0, 0, 0)
    /\ hitbox = Rect(0, 0, 0, 0)
    /\ pc = "idle"
    /\ direction = <<0, 0>>
    /\ distance_to_walk = <<0, 0>>
    /\ collided = FALSE
    /\ ret = "none"
    /\ call = [distance |-> 0, direction |-> <<0, 0>>, pos |-> pos,
               collider |-> collider, hitbox |-> hitbox]
    /\ tests = NoTests
    /\ met = {}
    /\ last = NoStep
    /\ moves = 0
    /\ health = MaxHealth
    /\ target_life = NewLife

\* __create_maze, lines 327-363: the parity tests, then the grid of Wall with
\* the start cell opened and pushed
CreateMaze ==
    /\ gpc = "create_maze"
    /\ IF ParityError(size, border_size)
       THEN /\ raised' = "ValueError"
            /\ gpc' = "raised"
            /\ UNCHANGED <<maze, stack>>
       ELSE LET s == StartCell(HalfWidth, HalfHeight)
            IN  /\ maze' = [WallGrid(HalfWidth, HalfHeight) EXCEPT ![s[2]][s[1]] = AIR]
                /\ stack' = <<s>>
                /\ gpc' = "carve"
                /\ UNCHANGED raised
    /\ UNCHANGED <<matrix_foreground, map_size, size, border_size, carved, foreground_maze,
                   background_maze, smooth_call, smooth_i>>
    /\ UNCHANGED moveVars
    /\ UNCHANGED levelVars
    /\ UNCHANGED groupVars
    /\ UNCHANGED gameVars

\* __create_maze, lines 364-385: one iteration of the while loop
CarveStep ==
    /\ gpc = "carve"
    /\ stack # <<>>
    /\ LET c    == stack[Len(stack)]
           free == Unvisited(maze, HalfWidth, HalfHeight, c)
       IN  IF free # {}
           THEN \E d \in free :
                  LET nx == c[1] + d[2] * 2
                      ny == c[2] + d[1] * 2
                  IN  IF \/ IndexRaises(c[2] + d[1], HalfHeight)
                         \/ IndexRaises(c[1] + d[2], HalfWidth)
                      THEN /\ raised' = "IndexError"
                           /\ gpc' = "raised"
                           /\ UNCHANGED <<maze, stack>>
                      ELSE /\ maze' = [maze EXCEPT ![c[2]][c[1]] = AIR,
                                                   ![c[2] + d[1]][c[1] + d[2]] = AIR,
                                                   ![ny][nx] = HOLE]
                           /\ stack' = Append(stack, <<nx, ny>>)
                           /\ UNCHANGED <<raised, gpc>>
           ELSE /\ stack' = SubSeq(stack, 1, Len(stack) - 1)
                /\ UNCHANGED <<maze, raised, gpc>>
    /\ UNCHANGED <<matrix_foreground, map_size, size, border_size, carved, foreground_maze,
                   background_maze, smooth_call, smooth_i>>
    /\ UNCHANGED moveVars
    /\ UNCHANGED levelVars
    /\ UNCHANGED groupVars
    /\ UNCHANGED gameVars

\* __create_maze, lines 386-422: the start cell marked Hole, then the
\* polishing pass (border and widening)
Polish ==
    /\ gpc = "carve"
    /\ stack = <<>>
    /\ LET s == StartCell(HalfWidth, HalfHeight)
       IN  carved' = [maze EXCEPT ![s[2]][s[1]] = HOLE]
    /\ maze' = Polished(carved', HalfWidth, HalfHeight, HalfBorder)
    /\ gpc' = "expand"
    /\ UNCHANGED <<matrix_foreground, map_size, size, border_size, raised, stack,
                   foreground_maze, background_maze, smooth_call, smooth_i>>
    /\ UNCHANGED moveVars
    /\ UNCHANGED levelVars
    /\ UNCHANGED groupVars
    /\ UNCHANGED gameVars

\* __create_maze, lines 424-434, and generate, line 281: the maze at full
\* size becomes foreground_maze and the argument of the first __smooth_maze
ExpandMaze ==
    /\ gpc = "expand"
    /\ size \in MapSizes
    /\ foreground_maze' = Expand(maze, HalfWidth, HalfHeight)
    /\ maze' = foreground_maze'
    /\ gpc' = "smooth"
    /\ smooth_call' = 1
    /\ smooth_i' = 0
    /\ UNCHANGED <<matrix_foreground, map_size, size, border_size, raised, stack, carved,
                   background_maze>>
    /\ UNCHANGED moveVars
    /\ UNCHANGED levelVars
    /\ UNCHANGED groupVars
    /\ UNCHANGED gameVars

\* __smooth_maze, lines 484-522: one iteration of the loop over ammount; the
\* last one returns to generate, which assigns the result and makes the next
\* call.  An iteration in which more than MaxDraws cells are random is
\* explored for one outcome only: every draw fails.
SmoothIteration ==
    /\ gpc = "smooth"
    /\ LET p     == SmoothCalls[smooth_call]
           draws == Draws(maze, MapWidth, MapHeight, border_size, p)
           sure  == Forced(maze, MapWidth, MapHeight, border_size, p)
       IN  \E passed \in (IF Cardinality(draws) <= MaxDraws THEN SUBSET draws ELSE { {} }) :
                LET temp_maze == Flip(maze, MapWidth, MapHeight, sure \cup passed)
                IN  /\ maze' = temp_maze
                    /\ IF smooth_i + 1 < p.ammount
                       THEN /\ smooth_i' = smooth_i + 1
                            /\ UNCHANGED <<smooth_call, foreground_maze, background_maze, gpc>>
                       ELSE /\ smooth_i' = 0
                            /\ smooth_call' = IF smooth_call < 3 THEN smooth_call + 1 ELSE smooth_call
                            /\ foreground_maze' = IF smooth_call < 3 THEN temp_maze
                                                  ELSE foreground_maze
                            /\ background_maze' = IF smooth_call >= 2 THEN temp_maze
                                                  ELSE background_maze
                            /\ gpc' = IF smooth_call = 3 THEN "tilemap" ELSE "smooth"
    /\ UNCHANGED <<matrix_foreground, map_size, size, border_size, raised, stack, carved>>
    /\ UNCHANGED moveVars
    /\ UNCHANGED levelVars
    /\ UNCHANGED groupVars
    /\ UNCHANGED gameVars

\* generate, lines 288-308, with __tilemap_maze: the tiles of both planes
\* placed, each one added to the tile set of its plane by place_tile
Tilemap ==
    /\ gpc = "tilemap"
    /\ matrix_foreground' =
          ForegroundMatrix(generation, foreground_maze, MapWidth, MapHeight, border_size)
    /\ matrix_background' =
          BackgroundMatrix(generation, foreground_maze, background_maze, MapWidth,
                           MapHeight, border_size)
    /\ foreground_tiles' = TilesOf(matrix_foreground')
    /\ background_tiles' = TilesOf(matrix_background')
    /\ gpc' = "done"
    /\ UNCHANGED <<map_size, size, border_size, raised, maze, stack, carved, foreground_maze,
                   background_maze, smooth_call, smooth_i>>
    /\ UNCHANGED moveVars
    /\ UNCHANGED <<graphics, generation, ops, result, effect>>
    /\ UNCHANGED groupVars
    /\ UNCHANGED gameVars

\* =========================================== the public operations of Map
MaxOps == 2

\* the level of the game is square (generate, line 272); 6 is 2 + 2 * BorderSize
LevelSize == <<2 + 2 * BorderSize, 2 + 2 * BorderSize>>

\* the interior Wall cells of the background maze drawn by the smoothing
LevelBackgrounds == { {}, {<<2, 3>>} }

\* tables of images a Map can be built with: the game's, and one whose
\* directory of tiles holds no loose file (utils.load_directory, line 119)
GraphicsTables ==
    { GameGraphics,
      [t \in DOMAIN GameGraphics \ {"None"} |-> GameGraphics[t]] }

Planes == { "foreground", "background" }

\* positions passed to the operations: two outside the grid, two inside
Positions == { <<-1, 2>>, <<2, 6>>, <<2, 3>>, <<3, 2>> }

\* tile codes <<type, variation>>: the empty code, codes of a known type with
\* a stored, a negative and a too large variation, and an unknown type
TileCodes == { <<"None", 0>>, <<"stone", 1>>, <<"stone", -1>>, <<"stone", 2>>,
               <<"lava", 0>> }

\* the collidable argument of place_tile: its default
CollidableArgs == { FALSE }

\* radius arguments of get_tiles_square: an int or a tuple
RadiusArgs == { <<"int", 0>>, <<"int", 1>>, <<"tuple", 3, 0>> }

\* get_tiles_square, lines 120-121
RadiusPair(r) == IF r[1] = "int" THEN <<r[2], r[2]>> ELSE <<r[2], r[3]>>

\* the matrix of a plane; every plane other than "foreground" is the background
PlaneMatrix(plane) == IF plane = "foreground" THEN matrix_foreground ELSE matrix_background

PlaneTiles(plane) == IF plane = "foreground" THEN foreground_tiles ELSE background_tiles

\* a matrix is a list of rows; these are len(matrix) and len(matrix[0])
MatrixRows(m) == Cardinality({ c[2] : c \in DOMAIN m })

MatrixCols(m) == Cardinality({ c[1] : c \in DOMAIN m })

\* Python list indexing matrix[row][col]: IndexError when an index is out of
\* range, a negative index counts from the end
ListRaises(m, row, col) == IndexRaises(row, MatrixRows(m)) \/ IndexRaises(col, MatrixCols(m))

PyIndex(i, n) == IF i < 0 THEN i + n ELSE i
\* matrix indexing with the row and the column exchanged
CellAtExchanged(m, row, col) == <<PyIndex(row, MatrixRows(m)), PyIndex(col, MatrixCols(m))>>

CellAt(m, row, col) == <<PyIndex(col, MatrixCols(m)), PyIndex(row, MatrixRows(m))>>

\* Map.get_tile on the matrix m of the plane
get_tile(m, msize, p) ==
    IF ~is_within_bounds(p[1], p[2], msize[1], msize[2])
    THEN [raised |-> "IndexError", tile |-> NoTile]
    ELSE IF ListRaises(m, p[2], p[1])
    THEN [raised |-> "IndexError", tile |-> NoTile]
    ELSE [raised |-> "none", tile |-> m[CellAt(m, p[2], p[1])]]

\* the record of a call that changed nothing but result
Called(op, p, plane, arg, exc, tile, tiles) ==
    [op |-> op, pos |-> p, plane |-> plane, arg |-> arg, raised |-> exc,
     tile |-> tile, tiles |-> tiles]

\* what every public operation leaves alone
OpFrame ==
    /\ gpc = "done"
    /\ ops < MaxOps
    /\ ops' = ops + 1
    /\ UNCHANGED <<map_size, size, border_size, gpc, raised, maze, stack, carved, smooth_call,
                   smooth_i, graphics>>
    /\ UNCHANGED moveVars
    /\ UNCHANGED groupVars
    /\ UNCHANGED gameVars

\* the effect of the call just made, from the level before and after it
Effect ==
    effect' = [changed |-> <<matrix_foreground', matrix_background', foreground_tiles',
                             background_tiles'>>
                           # <<matrix_foreground, matrix_background, foreground_tiles,
                               background_tiles>>,
               again |-> /\ result'.op = result.op /\ result'.pos = result.pos
                         /\ result'.plane = result.plane /\ result'.arg = result.arg]

\* Map.__init__ with its generate call finished: a level of LevelSize
InitMap ==
    /\ size = LevelSize
    /\ border_size = BorderSize
    /\ map_size = <<size[2], size[1]>>
    /\ graphics \in GraphicsTables
    /\ foreground_maze = RoomMaze(size[2], size[1], {})
    /\ \E walls \in LevelBackgrounds : background_maze = RoomMaze(size[2], size[1], walls)
    /\ maze = background_maze
    /\ matrix_foreground =
          ForegroundMatrix(1, foreground_maze, size[2], size[1], border_size)
    /\ matrix_background =
          BackgroundMatrix(1, foreground_maze, background_maze, size[2], size[1],
                           border_size)
    /\ foreground_tiles = TilesOf(matrix_foreground)
    /\ background_tiles = TilesOf(matrix_background)
    /\ generation = 1
    /\ ops = 0
    /\ result = NoCall
    /\ effect = NoEffect
    /\ NoGroups
    /\ NoGame
    /\ stack = <<>>
    /\ carved = <<>>
    /\ gpc = "done"
    /\ raised = "none"
    /\ smooth_call = 3
    /\ smooth_i = 0
    /\ kind = "none"
    /\ targets = {}
    /\ pos = <<0, 0>>
    /\ collider = Rect(0, 0, 0, 0)
    /\ hitbox = Rect(0, 0, 0, 0)
    /\ pc = "idle"
    /\ direction = <<0, 0>>
    /\ distance_to_walk = <<0, 0>>
    /\ collided = FALSE
    /\ ret = "none"
    /\ call = [distance |-> 0, direction |-> <<0, 0>>, pos |-> pos,
               collider |-> collider, hitbox |-> hitbox]
    /\ tests = NoTests
    /\ met = {}
    /\ last = NoStep
    /\ moves = 0
    /\ health = MaxHealth
    /\ target_life = NewLife

\* Map.get_tile(pos, plane)
GetTile(p, plane) ==
    /\ OpFrame
    /\ LET g == get_tile(PlaneMatrix(plane), map_size, p)
       IN  result' = Called("get_tile", p, plane, <<>>, g.raised, g.tile, {})
    /\ UNCHANGED <<matrix_foreground, matrix_background, foreground_tiles,
                   background_tiles, foreground_maze, background_maze, generation>>
    /\ Effect

\* Map.get_tiles_square(pos, radius, plane): the centre is tested first, then
\* every cell of the square inside the grid is read with get_tile
GetTilesSquare(p, rad, plane) ==
    /\ OpFrame
    /\ LET m == PlaneMatrix(plane)
           r == RadiusPair(rad)
           read == { d \in ((p[1] - r[1])..(p[1] + r[1])) \X ((p[2] - r[2])..(p[2] + r[2])) :
                       is_within_bounds(d[1], d[2], map_size[1], map_size[2]) }
       IN  IF ~is_within_bounds(p[1], p[2], map_size[1], map_size[2])
           THEN result' = Called("get_tiles_square", p, plane, rad, "IndexError", NoTile, {})
           ELSE IF \E d \in read : get_tile(m, map_size, d).raised # "none"
           THEN result' = Called("get_tiles_square", p, plane, rad, "IndexError", NoTile, {})
           ELSE result' = Called("get_tiles_square", p, plane, rad, "none", NoTile,
                                 get_tiles_square(m, map_size, p, r))
    /\ UNCHANGED <<matrix_foreground, matrix_background, foreground_tiles,
                   background_tiles, foreground_maze, background_maze, generation>>
    /\ Effect

\* a place_tile without the early return for the empty code
EmptyCodeNever(code) == FALSE

\* place_tile, lines 191-193: the code of type "None" places nothing
EmptyCode(code) == code[1] = "None"

\* place_tile, lines 195-197: a type the table lacks becomes TileCode("None", 0)
Substituted(code) == IF code[1] \in DOMAIN graphics THEN code ELSE <<"None", 0>>
\* place_tile storing the variation asked for as the index of the image
ImageChoicesRaw(code) == { <<code[1], code[2]>> }

\* place_tile, lines 199-205: the images the call can pick for a code of a
\* type of the table: the one at the variation, or any one (random.choice)
ImageChoices(code) ==
    IF code[2] >= 0 /\ code[2] < graphics[code[1]]
    THEN { <<code[1], code[2]>> }
    ELSE { <<code[1], v>> : v \in 0..graphics[code[1]] - 1 }

\* the assignment of lines 219-224 and Tile.add_to: the cell of the plane's
\* matrix is overwritten and the tile joins the plane's set; a tile that was
\* in the cell is not killed
Stored(p, plane, tile) ==
    /\ IF plane = "foreground"
       THEN /\ matrix_foreground' =
                  [matrix_foreground EXCEPT ![CellAt(matrix_foreground, p[2], p[1])] = tile]
            /\ foreground_tiles' = foreground_tiles \cup {tile}
            /\ UNCHANGED <<matrix_background, background_tiles>>
       ELSE /\ matrix_background' =
                  [matrix_background EXCEPT ![CellAt(matrix_background, p[2], p[1])] = tile]
            /\ background_tiles' = background_tiles \cup {tile}
            /\ UNCHANGED <<matrix_foreground, foreground_tiles>>

\* Map.place_tile(pos, tile_code, plane=plane, collidable=collidable)
PlaceTile(p, code, plane, collidable) ==
    /\ OpFrame
    /\ LET sub == Substituted(code)
           fails(exc) ==
               /\ result' = Called("place_tile", p, plane, code, exc, NoTile, {})
               /\ UNCHANGED <<matrix_foreground, matrix_background, foreground_tiles,
                              background_tiles>>
       IN  IF ~is_within_bounds(p[1], p[2], map_size[1], map_size[2])
           THEN fails("IndexError")
           ELSE IF EmptyCode(code) THEN fails("none")
           ELSE IF sub[1] \notin DOMAIN graphics THEN fails("KeyError")
           ELSE IF ImageChoices(sub) = {} THEN fails("IndexError")
           ELSE \E image \in ImageChoices(sub) :
                  LET tile == NewTile(<<generation, ops + 1, plane, p>>, image,
                                      p[1], p[2], sub[1], collidable)
                  IN  IF ListRaises(PlaneMatrix(plane), p[2], p[1])
                      THEN fails("IndexError")
                      ELSE /\ result' = Called("place_tile", p, plane, code, "none", tile, {})
                           /\ Stored(p, plane, tile)
    /\ UNCHANGED <<foreground_maze, background_maze, generation>>
    /\ Effect

\* Sprite.kill: the tile leaves every group it belongs to
Killed(group, tile) == group \ {tile}

\* Map.remove_tile(pos, plane): the tile read at matrix[pos[1]][pos[0]] is
\* killed, then matrix[pos[0]][pos[1]] is set to None
RemoveTile(p, plane) ==
    /\ OpFrame
    /\ LET m == PlaneMatrix(plane)
           g == get_tile(m, map_size, p)
           nothing(exc) ==
               /\ result' = Called("remove_tile", p, plane, <<>>, exc, NoTile, {})
               /\ UNCHANGED <<matrix_foreground, matrix_background, foreground_tiles,
                              background_tiles>>
       IN  IF g.raised # "none" THEN nothing(g.raised)
           ELSE IF g.tile = NoTile THEN nothing("none")
           ELSE /\ foreground_tiles' = Killed(foreground_tiles, g.tile)
                /\ background_tiles' = Killed(background_tiles, g.tile)
                /\ IF ListRaises(m, p[1], p[2])
                   THEN /\ result' = Called("remove_tile", p, plane, <<>>, "IndexError",
                                            g.tile, {})
                        /\ UNCHANGED <<matrix_foreground, matrix_background>>
                   ELSE /\ result' = Called("remove_tile", p, plane, <<>>, "none",
                                            g.tile, {})
                        /\ IF plane = "foreground"
                           THEN /\ matrix_foreground' =
                                      [m EXCEPT ![CellAt(m, p[1], p[2])] = NoTile]
                                /\ UNCHANGED matrix_background
                           ELSE /\ matrix_background' =
                                      [m EXCEPT ![CellAt(m, p[1], p[2])] = NoTile]
                                /\ UNCHANGED matrix_foreground
    /\ UNCHANGED <<foreground_maze, background_maze, generation>>
    /\ Effect

\* a SpriteGroup.empty that leaves the items in the group
EmptiedGroupKept(group) == group

\* SpriteGroup.empty: every item forgets the group, then the item set is cleared
EmptiedGroup(group) == {}

\* a matrix after list.clear(): no rows
EmptyMatrix == [c \in {} |-> NoTile]

\* Map.clear(): both SpriteGroups emptied, both matrices cleared
Clear ==
    /\ OpFrame
    /\ foreground_tiles' = EmptiedGroup(foreground_tiles)
    /\ background_tiles' = EmptiedGroup(background_tiles)
    /\ matrix_foreground' = EmptyMatrix
    /\ matrix_background' = EmptyMatrix
    /\ result' = Called("clear", <<0, 0>>, "foreground", <<>>, "none", NoTile, {})
    /\ UNCHANGED <<foreground_maze, background_maze, generation>>
    /\ Effect

\* Map.generate() in one step: clear(), the size and the matrices assigned
\* anew, a maze drawn (one of those the steps of generation reach for a
\* level of this size) and the tiles of both planes placed
Generate ==
    /\ OpFrame
    /\ generation' = generation + 1
    /\ foreground_maze' = RoomMaze(size[2], size[1], {})
    /\ \E walls \in LevelBackgrounds : background_maze' = RoomMaze(size[2], size[1], walls)
    /\ matrix_foreground' =
          ForegroundMatrix(generation', foreground_maze', size[2], size[1], border_size)
    /\ matrix_background' =
          BackgroundMatrix(generation', foreground_maze', background_maze', size[2],
                           size[1], border_size)
    /\ foreground_tiles' = EmptiedGroup(foreground_tiles) \cup TilesOf(matrix_foreground')
    /\ background_tiles' = EmptiedGroup(background_tiles) \cup TilesOf(matrix_background')
    /\ result' = Called("generate", <<0, 0>>, "foreground", <<>>, "none", NoTile, {})
    /\ Effect

vars == <<matrix_foreground, map_size, kind, targets, pos, collider, hitbox, pc,
          direction, distance_to_walk, collided, ret, call, tests, met, last, moves,
          size, border_size, gpc, raised, maze, stack, carved, foreground_maze, background_maze,
          smooth_call, smooth_i, matrix_background, foreground_tiles, background_tiles,
          graphics, generation, ops, result, effect, sprite_groups, item_set,
          group_call, group_ops, health, target_life, player, game, available, spawn,
          listed, frame>>

MoveCall == \E distance \in DistanceArgs, dirArg \in DirectionArgs : Move(distance, dirArg)

NextMove == MoveCall \/ StepX \/ StepY

SpecMove == InitMove /\ [][NextMove]_vars

NextGenerate == CreateMaze \/ CarveStep \/ Polish \/ ExpandMaze \/ SmoothIteration \/ Tilemap

SpecGenerate == InitGenerate /\ [][NextGenerate]_vars

GetTileCall == \E p \in Positions, plane \in Planes : GetTile(p, plane)

GetTilesSquareCall ==
    \E p \in Positions, rad \in RadiusArgs, plane \in Planes : GetTilesSquare(p, rad, plane)

PlaceTileCall ==
    \E p \in Positions, code \in TileCodes, plane \in Planes, collidable \in CollidableArgs :
        PlaceTile(p, code, plane, collidable)

RemoveTileCall == \E p \in Positions, plane \in Planes : RemoveTile(p, plane)

NextMap ==
    GetTileCall \/ GetTilesSquareCall \/ PlaceTileCall \/ RemoveTileCall \/ Clear \/ Generate

SpecMap == InitMap /\ [][NextMap]_vars
\* ------------------------------------------------- membership operations
\* How many membership operations one behaviour calls
MaxGroupOps == 4

\* One more membership operation is called; the level and the actor are left alone
GroupFrame ==
    /\ group_ops < MaxGroupOps
    /\ group_ops' = group_ops + 1
    /\ UNCHANGED moveVars
    /\ UNCHANGED mapVars
    /\ UNCHANGED levelVars
    /\ UNCHANGED gameVars

\* The memberships a call leaves, and the record of the call
Left(m, op, s, g) ==
    /\ sprite_groups' = m.groups
    /\ item_set' = m.items
    /\ group_call' = [op |-> op, sprite |-> s, group |-> g, raised |-> m.raised]

\* sprite.add_to(group)
AddTo(s, g) == GroupFrame /\ Left(add_to(Memberships, s, g), "add_to", s, g)

\* sprite.remove_from(group)
RemoveFrom(s, g) == GroupFrame /\ Left(remove_from(Memberships, s, g), "remove_from", s, g)

\* sprite.kill()
Kill(s) == GroupFrame /\ Left(kill(Memberships, s), "kill", s, "none")

\* group.add(sprite)
Add(g, s) == GroupFrame /\ Left(add(Memberships, g, s), "add", s, g)

\* group.remove(sprite)
Remove(g, s) == GroupFrame /\ Left(remove(Memberships, g, s), "remove", s, g)

\* group.empty()
Empty(g) == GroupFrame /\ Left(empty(Memberships, g), "empty", "none", g)

AddToCall == \E s \in Sprites, g \in SpriteGroups : AddTo(s, g)

RemoveFromCall == \E s \in Sprites, g \in SpriteGroups : RemoveFrom(s, g)

KillCall == \E s \in Sprites : Kill(s)

AddCall == \E s \in Sprites, g \in SpriteGroups : Add(g, s)

RemoveCall == \E s \in Sprites, g \in SpriteGroups : Remove(g, s)

EmptyCall == \E g \in SpriteGroups : Empty(g)

NextGroups == AddToCall \/ RemoveFromCall \/ KillCall \/ AddCall \/ RemoveCall \/ EmptyCall

\* The game after construction, then any membership operations
SpecGroups == InitMap /\ [][NextGroups]_vars
\* ------------------------------------------------- __smooth_maze called alone
\* The arguments of the __smooth_maze calls explored: the three of generate,
\* then calls of one iteration in which Wall surely expands, both surely
\* expand, and both expand at random
SmoothArgs ==
    SmoothCalls \o
    << [ammount |-> 1, stop_air |-> 10, stop_wall |-> 0, air_neighbors |-> 4, wall_neighbors |-> 5],
       [ammount |-> 1, stop_air |-> 0, stop_wall |-> 0, air_neighbors |-> 5, wall_neighbors |-> 6],
       [ammount |-> 1, stop_air |-> 3, stop_wall |-> 3, air_neighbors |-> 4, wall_neighbors |-> 4] >>

\* the map of the calls: a border of BorderSize around 3 x 3 cells
SmoothSize == <<3 + 2 * BorderSize, 3 + 2 * BorderSize>>

\* the mazes passed: the border is Wall, as __create_maze leaves it, and the
\* cells inside are Wall or Air in every combination
SmoothInputs ==
    LET inside == (BorderSize..BorderSize + 2) \X (BorderSize..BorderSize + 2)
    IN  { [y \in 0..SmoothSize[1] - 1 |-> [x \in 0..SmoothSize[2] - 1 |->
              IF <<x, y>> \in open THEN AIR ELSE WALL]] : open \in SUBSET inside }

\* A Map whose size and border are set, at the entry of a __smooth_maze call;
\* foreground_maze is the matrix the caller passed
InitSmooth ==
    /\ size = SmoothSize
    /\ border_size = BorderSize
    /\ map_size = <<size[2], size[1]>>
    /\ matrix_foreground = [c \in (0..size[2] - 1) \X (0..size[1] - 1) |-> NoTile]
    /\ matrix_background = matrix_foreground
    /\ foreground_tiles = {}
    /\ background_tiles = {}
    /\ graphics = GameGraphics
    /\ generation = 1
    /\ ops = 0
    /\ result = NoCall
    /\ effect = NoEffect
    /\ NoGroups
    /\ NoGame
    /\ gpc = "smooth_maze"
    /\ raised = "none"
    /\ maze \in SmoothInputs
    /\ stack = <<>>
    /\ carved = <<>>
    /\ foreground_maze = maze
    /\ background_maze = <<>>
    /\ smooth_call \in DOMAIN SmoothArgs
    /\ smooth_i = 0
    /\ kind = "none"
    /\ targets = {}
    /\ pos = <<0, 0>>
    /\ collider = Rect(0, 0, 0, 0)
    /\ hitbox = Rect(0, 0, 0, 0)
    /\ pc = "idle"
    /\ direction = <<0, 0>>
    /\ distance_to_walk = <<0, 0>>
    /\ collided = FALSE
    /\ ret = "none"
    /\ call = [distance |-> 0, direction |-> <<0, 0>>, pos |-> pos,
               collider |-> collider, hitbox |-> hitbox]
    /\ tests = NoTests
    /\ met = {}
    /\ last = NoStep
    /\ moves = 0
    /\ health = MaxHealth
    /\ target_life = NewLife

\* __smooth_maze, lines 485-523: one iteration of the loop over ammount; the
\* last one returns.  An iteration in which more than MaxDraws cells are
\* random is explored for one outcome only: every draw fails.
SmoothMaze ==
    /\ gpc = "smooth_maze"
    /\ LET p     == SmoothArgs[smooth_call]
           draws == Draws(maze, MapWidth, MapHeight, border_size, p)
           sure  == Forced(maze, MapWidth, MapHeight, border_size, p)
       IN  /\ \E passed \in (IF Cardinality(draws) <= MaxDraws THEN SUBSET draws ELSE { {} }) :
                maze' = Flip(maze, MapWidth, MapHeight, sure \cup passed)
           /\ smooth_i' = smooth_i + 1
           /\ gpc' = IF smooth_i + 1 < p.ammount THEN gpc ELSE "returned"
    /\ UNCHANGED <<matrix_foreground, map_size, size, border_size, raised, stack, carved,
                   foreground_maze, background_maze, smooth_call>>
    /\ UNCHANGED moveVars
    /\ UNCHANGED levelVars
    /\ UNCHANGED groupVars
    /\ UNCHANGED gameVars

NextSmooth == SmoothMaze

SpecSmooth == InitSmooth /\ [][NextSmooth]_vars

\* ============================================================ the game loop
\* Game.run(dt) on the lives of the player and of the enemies.  Positions are
\* left out: whether a projectile overlaps the player, and whether an enemy is
\* brought to health 0, are inputs of the frame.
MaxScore == 8

\* dt of a frame, in milliseconds: clock.tick(60) returns at least 16, and
\* more when a frame is slow
FrameTimes == { 400, 1000 }

\* Enemy._value of the enemy killed (Hornet)
EnemyValue == 10

\* check_death that takes health 0 for alive
check_death_negative(e) == e.health < 0

\* Entity.check_death
check_death(e) == e.health <= 0

\* Entity._cooldowns, lines 82-86: the invulnerability timer
cooldowns(e, dt) ==
    IF ~e.vulnerable
    THEN IF e.invulnerable_time - dt <= 0
         THEN [e EXCEPT !.vulnerable = TRUE, !.invulnerable_time = 0]
         ELSE [e EXCEPT !.invulnerable_time = @ - dt]
    ELSE e

\* Player._cooldowns: Entity._cooldowns, then the dodge timer
player_cooldowns(p, dt) ==
    LET e == cooldowns(p, dt)
    IN  IF e.dodging
        THEN IF e.dodge_time - dt <= 0
             THEN [e EXCEPT !.dodging = FALSE, !.dodge_time = 0]
             ELSE [e EXCEPT !.dodge_time = @ - dt]
        ELSE e

\* Player.__input, lines 131-142: the space key starts a dodge, which makes the
\* player invulnerable for the air time
input(p, space) ==
    IF space
    THEN IF ~p.dodging /\ p.dodge_released
         THEN [p EXCEPT !.dodge_released = FALSE, !.dodging = TRUE,
                        !.dodge_time = DodgeCooldown, !.vulnerable = FALSE,
                        !.invulnerable_time = AirTime]
         ELSE p
    ELSE [p EXCEPT !.dodge_released = TRUE]

\* Player.update(dt), lines 73-89; since grows by the time of the update
player_update(p, dt, space) ==
    LET aged == [p EXCEPT !.since = IF @ + dt > p.grace_time THEN p.grace_time ELSE @ + dt]
    IN  IF check_death(aged) = FALSE
        THEN IF aged.dodging /\ aged.dodge_time >= DodgeCooldown - AirTime
             THEN player_cooldowns(aged, dt)
             ELSE player_cooldowns(input(aged, space), dt)
        ELSE [player_cooldowns(aged, dt) EXCEPT !.vulnerable = FALSE]

\* Projectyle._deal_damage on the player: take_damage, and the bookkeeping of
\* the time between two losses of health
Struck(p) ==
    LET d == take_damage(p, Damage)
    IN  IF d.health < p.health THEN [d EXCEPT !.gap = p.since, !.since = 0] ELSE d

\* Game.run(dt), lines 65-101: game over if the player is dead, the player's
\* update, the update of the entities (hit: a projectile overlaps the player;
\* killed: how many enemies reach health 0), check_deaths, and the score with
\* the creation of an enemy every score cooldown
Run(dt, space, hit, killed) ==
    /\ game.game_over \/ game.score < MaxScore
    /\ hit => game.spawned > 0
    /\ killed <= game.enemies
    /\ LET over    == game.game_over \/ check_death(player)
           updated == player_update(player, dt, space)
           left    == game.score_time - dt
           due     == ~over /\ left <= 0
       IN  /\ player' = IF hit THEN Struck(updated) ELSE updated
           /\ game' = [game_over  |-> over,
                       score      |-> IF over THEN game.score
                                      ELSE game.score + (IF due THEN 1 ELSE 0)
                                                      + EnemyValue * killed,
                       score_time |-> IF over THEN game.score_time
                                      ELSE IF due THEN ScoreCooldown ELSE left,
                       spawned    |-> game.spawned + (IF due THEN 1 ELSE 0),
                       enemies    |-> game.enemies - killed + (IF due THEN 1 ELSE 0)]
    /\ UNCHANGED <<available, spawn, listed, frame>>
    /\ UNCHANGED moveVars
    /\ UNCHANGED mapVars
    /\ UNCHANGED levelVars
    /\ UNCHANGED groupVars

NextGame == \E dt \in FrameTimes, space \in BOOLEAN, hit \in BOOLEAN, killed \in 0..1 :
                Run(dt, space, hit, killed)

\* Game.__init__: the level generated, the player created, no enemy
SpecGame == InitMap /\ [][NextGame]_vars

\* ================================================================ claims
\* ---- vocabulary of the movement claims
Returned == pc = "idle" /\ moves > 0

Overlaps(r) ==
    \E t \in AllTiles(matrix_foreground) : t.collidable /\ colliderect(r, t.collider)

\* r touches the facing edge of a collidable tile with its leading edge on the
\* axis, and shares a stretch of the other axis with it
Flush(r, axis, d) ==
    \E t \in AllTiles(matrix_foreground) :
        /\ t.collidable
        /\ IF axis = "x"
           THEN /\ IF d[1] > 0 THEN Right(r) = t.collider.x ELSE r.x = Right(t.collider)
                /\ r.y < Bottom(t.collider) /\ Bottom(r) > t.collider.y
           ELSE /\ IF d[2] > 0 THEN Bottom(r) = t.collider.y ELSE r.y = Bottom(t.collider)
                /\ r.x < Right(t.collider) /\ Right(r) > t.collider.x

\* the obstacles the advanced collider of the last sub-step ran into
RanInto == { matrix_foreground[c] : c \in last.ran }

\* r overlaps none of the obstacles the advanced collider ran into
ClearOfMet(r) == \A t \in RanInto : ~colliderect(r, t.collider)

AxisAligned(d) == (d[1] = 0) # (d[2] = 0)

AxisOf(d) == IF d[1] # 0 THEN "x" ELSE "y"

\* C1 (as amended): a sub-step blocked by a collidable tile records the
\* collision, ends that axis and leaves the actor's COLLIDER flush with a
\* collidable tile (leading edge on the tile's facing edge) and overlapping
\* none of the obstacles it ran into; the call then returns true; an entity
\* sent 1000 pixels along an axis in a walled room returns true with its
\* collider flush to a tile.
C1_BlockedColliderFlush ==
    /\ last.tile =>
          /\ collided
          /\ distance_to_walk[IF last.axis = "x" THEN 1 ELSE 2] = 0
          /\ Flush(collider, last.axis, direction)
          /\ ClearOfMet(collider)
    /\ Returned /\ met \cap {"tile_x", "tile_y"} # {} => ret = TRUE
    /\ Returned /\ kind = "entity" /\ call.distance = 1000 * Scale
                /\ AxisAligned(call.direction)
          => ret = TRUE /\ Flush(collider, AxisOf(direction), direction)

C1_Witness ==
    /\ Returned /\ kind = "entity" /\ call.distance = 1000 * Scale
    /\ call.direction = <<1, 0>> /\ met = {"tile_x"} /\ ret = TRUE

\* C1 (as stated): a blocked sub-step leaves the actor's HITBOX flush with the
\* obstacle on that axis and not overlapping any obstacle.
C1_BlockedHitboxFlush ==
    last.tile => Flush(hitbox, last.axis, direction) /\ ~Overlaps(hitbox)

\* C2 (as stated): an actor whose collider overlaps no collidable tile before
\* _move overlaps none when _move returns; every sub-step advances its axis by
\* at most the hitbox dimension; and every collidable tile under the collider
\* after a sub-step is among the tiles of the radius-1 lookup.
C2_NoTunneling ==
    /\ Returned /\ ~Overlaps(call.collider) => ~Overlaps(collider)
    /\ last.axis = "x" => Abs(last.adv) <= hitbox.w * Scale
    /\ last.axis = "y" => Abs(last.adv) <= hitbox.h * Scale
    /\ last.axis # "none" /\ pc # "error" => ~last.unseen

\* C3: a call that meets no tile and no target returns false and has moved the
\* position by exactly |direction.axis * distance| in the sign of the
\* direction, on both axes.
C3_OpenSpaceExact ==
    Returned /\ met = {} =>
        LET nd == Normalize(call.direction)
        IN  /\ ret = FALSE
            /\ pos[1] = call.pos[1] + Sign(nd[1]) * (Abs(nd[1] * call.distance) \div Scale)
            /\ pos[2] = call.pos[2] + Sign(nd[2]) * (Abs(nd[2] * call.distance) \div Scale)

C3_Witness ==
    /\ Returned /\ met = {} /\ collider.w = 8
    /\ call.distance = 130 /\ call.direction = <<3, 4>>
    /\ pos = <<call.pos[1] + 78, call.pos[2] + 104>>

\* C4: a call with distance 0 or a zero direction returns false at once, with
\* position, collider and hitbox as they were and no collision or hit test made.
C4_ZeroMoveNoOp ==
    moves > 0 /\ (call.distance = 0 \/ call.direction = <<0, 0>>) =>
        /\ pc = "idle" /\ ret = FALSE
        /\ pos = call.pos /\ collider = call.collider /\ hitbox = call.hitbox
        /\ tests = NoTests

C4_Witness ==
    /\ moves = 2 /\ pc = "idle" /\ call.direction = <<0, 0>> /\ call.distance = 130
    /\ pos[1] % Scale # 0 /\ ret = FALSE

\* C5 (as stated): every loop iteration strictly decreases the remaining
\* distance of each axis that still has some.
C5_EachIterationDecreases ==
    [][ /\ pc = "x" /\ distance_to_walk[1] # 0 => distance_to_walk'[1] < distance_to_walk[1]
        /\ pc = "y" /\ distance_to_walk[2] # 0 => distance_to_walk'[2] < distance_to_walk[2]
      ]_vars

\* C6 (as stated): between calls the collider's origin is the position (to the
\* pixel) and the hitbox keeps the inset it had at construction.
C6_Lockstep ==
    pc = "idle" =>
        /\ collider.x = Round(pos[1]) /\ collider.y = Round(pos[2])
        /\ hitbox.x - collider.x = HitboxInset \div 2
        /\ hitbox.y - collider.y = HitboxInset \div 2

\* C7 (as amended): a sub-step collides with a tile exactly when the actor's
\* COLLIDER, as advanced, overlaps the collider of a collidable tile of the
\* lookup, and the snap then puts the collider flush with a tile.
C7_TileTestUsesCollider ==
    /\ last.tile <=> last.colliderOver
    /\ last.tile => Flush(collider, last.axis, direction)

C7_Witness == last.tile /\ last.colliderOver /\ ~last.hitboxOver

\* C7 (as stated): a sub-step collides with a tile exactly when the actor's
\* HITBOX overlaps the tile's collider.
C7_TileTestUsesHitbox == last.tile <=> last.hitboxOver
\* ---- vocabulary of the generation claims
\* the Open (Air) and Frontier (Hole) cells of a half-resolution maze
OpenCells(m, w, h) == { c \in (0..w - 1) \X (0..h - 1) : m[c[2]][c[1]] \in {AIR, HOLE} }

\* the cells of open reached from seen through axis-adjacent cells of open
RECURSIVE Reach(_, _)
Reach(seen, open) ==
    LET more == { c \in open \ seen :
                    \E r \in seen : Abs(c[1] - r[1]) + Abs(c[2] - r[2]) = 1 }
    IN  IF more = {} THEN seen ELSE Reach(seen \cup more, open)

\* every Open or Frontier cell is reachable from the start cell
Connected(m, w, h) ==
    OpenCells(m, w, h) \subseteq Reach({StartCell(w, h)}, OpenCells(m, w, h))

CarvingDone == gpc = "carve" /\ stack = <<>>

SmallBorder == 2 * border_size < (IF MapWidth < MapHeight THEN MapWidth ELSE MapHeight)

\* C8 (as stated): for even sizes and an even border below half the smaller
\* size, the half-resolution grid is connected from the start cell after
\* carving and border enforcement, and again after the widening pass.
C8_CarverConnected ==
    SmallBorder =>
        /\ CarvingDone => Connected(Bordered(maze, HalfWidth, HalfHeight, HalfBorder),
                                    HalfWidth, HalfHeight)
        /\ gpc = "expand" => Connected(maze, HalfWidth, HalfHeight)
C8_Witness ==
    /\ size = <<16, 16>> /\ border_size = 2 /\ gpc = "expand"
    /\ ~Connected(maze, HalfWidth, HalfHeight)

\* every cell of the full-size maze m within the border margin is Wall
AllBorderWall(m) ==
    \A y \in 0..MapHeight - 1, x \in 0..MapWidth - 1 :
        (\/ x < border_size \/ x >= MapWidth - border_size
         \/ y < border_size \/ y >= MapHeight - border_size) => m[y][x] = WALL

\* C9: in the carver's output, in the maze of every smoothing iteration and in
\* the foreground and background mazes, every cell within the border margin
\* is Wall.
C9_BorderIsWall ==
    /\ gpc = "smooth" => AllBorderWall(maze)
    /\ foreground_maze # <<>> => AllBorderWall(foreground_maze)
    /\ background_maze # <<>> => AllBorderWall(background_maze)

C9_Witness ==
    /\ gpc = "smooth" /\ smooth_call = 3 /\ smooth_i = 2
    /\ size = <<6, 6>> /\ border_size = 2
    /\ foreground_maze[2][2] = AIR /\ maze[2][2] = WALL /\ maze[3][3] = AIR

\* C10: __create_maze ends with ValueError exactly when the width, the height
\* or the border size is odd, with nothing carved; with all three even (sizes
\* positive, border not negative) generation raises nothing.
C10_OddSizeRaises ==
    LET odd == size[1] % 2 # 0 \/ size[2] % 2 # 0 \/ border_size % 2 # 0
    IN  /\ gpc # "create_maze" => (raised = "ValueError" <=> odd)
        /\ raised = "ValueError" =>
              maze = <<>> /\ stack = <<>> /\ foreground_maze = <<>> /\ gpc = "raised"
        /\ ~odd => raised = "none"

C10_Witness ==
    /\ raised = "ValueError" /\ size = <<6, 6>> /\ border_size = 1 /\ maze = <<>>

\* ---- vocabulary of the claims about the operations of Map
\* the position lies inside [0, width) x [0, height)
InGrid(p) == p[1] >= 0 /\ p[1] < MapWidth /\ p[2] >= 0 /\ p[2] < MapHeight

\* the operations that take a position
PositionOps == { "get_tile", "get_tiles_square", "place_tile", "remove_tile" }

\* C11: get_tile, get_tiles_square, place_tile and remove_tile called with a
\* position outside the grid end with IndexError, return and create no tile
\* (the position is not clamped to a cell), and leave both plane matrices
\* and both tile sets as they were.
C11_OutOfBoundsRaises ==
    (result.op \in PositionOps /\ ~InGrid(result.pos)) =>
        /\ result.raised = "IndexError"
        /\ result.tile = NoTile /\ result.tiles = {}
        /\ ~effect.changed

\* a tile of a known type was to be placed outside the grid
C11_Witness ==
    /\ result.op = "place_tile" /\ ~InGrid(result.pos)
    /\ result.arg[1] = "stone" /\ result.raised = "IndexError"

\* the cells of the grid
GridCells == (0..MapWidth - 1) \X (0..MapHeight - 1)

\* both plane matrices hold the grid of the level (they do after generate;
\* a bare clear() leaves them without rows, see C20)
GridAllocated == DOMAIN matrix_foreground = GridCells /\ DOMAIN matrix_background = GridCells

\* the code of the last place_tile call names a type of the table that is not
\* the empty type
RecognizedCode == result.arg[1] \in DOMAIN graphics /\ result.arg[1] # "None"

\* C12: on a level whose grid is allocated, place_tile with an in-bounds pos
\* and a code of a recognized, non-empty type returns, and get_tile at the
\* same pos and plane then returns the tile that call created, of the placed
\* type, whose image is the one stored at the placed variation when
\* 0 <= variation < number of images of the type, and otherwise one of the
\* images stored for that type.
C12_PlaceGetRoundTrip ==
    (result.op = "place_tile" /\ InGrid(result.pos) /\ RecognizedCode /\ GridAllocated) =>
        LET g == get_tile(PlaneMatrix(result.plane), map_size, result.pos)
            type == result.arg[1]
            variation == result.arg[2]
        IN  /\ result.raised = "none"
            /\ g.raised = "none"
            /\ g.tile # NoTile
            /\ g.tile = result.tile
            /\ g.tile.id = <<generation, ops, result.plane, result.pos>>
            /\ g.tile.type = type
            /\ IF variation >= 0 /\ variation < graphics[type]
               THEN g.tile.image = <<type, variation>>
               ELSE /\ g.tile.image[1] = type
                    /\ g.tile.image[2] \in 0..graphics[type] - 1

\* a tile placed with a variation beyond the images of its type, over a cell
\* that held another tile, and given the first image of the type
C12_Witness ==
    /\ result.op = "place_tile" /\ result.pos = <<3, 2>> /\ result.plane = "foreground"
    /\ result.arg = <<"stone", 2>> /\ result.raised = "none"
    /\ matrix_foreground[<<3, 2>>].image = <<"stone", 0>>
    /\ Cardinality({ t \in foreground_tiles : t.cell = <<3, 2>> }) = 2

\* the plane that was not asked for
OtherPlane(plane) == IF plane = "foreground" THEN "background" ELSE "foreground"

\* C13: on a level whose grid is allocated, get_tiles_square with an in-bounds
\* centre (cx, cy), a radius (rx, ry) (an int r meaning (r, r)) and a plane
\* returns exactly the tiles held by the cells (x, y) of that plane's matrix
\* with |x - cx| <= rx and |y - cy| <= ry inside the grid; it raises nothing
\* for the cells of the square outside the grid, returns no tile of the other
\* plane, and with radius 0 returns the tile at the centre or nothing.
C13_SquareIsExact ==
    (result.op = "get_tiles_square" /\ InGrid(result.pos) /\ GridAllocated) =>
        LET m == PlaneMatrix(result.plane)
            rx == result.arg[2]
            ry == IF result.arg[1] = "int" THEN result.arg[2] ELSE result.arg[3]
            inside == { c \in GridCells : /\ Abs(c[1] - result.pos[1]) <= rx
                                          /\ Abs(c[2] - result.pos[2]) <= ry }
        IN  /\ result.raised = "none"
            /\ result.tiles = { m[c] : c \in inside } \ { NoTile }
            /\ result.tiles \cap TilesOf(PlaneMatrix(OtherPlane(result.plane))) = {}
            /\ (rx = 0 /\ ry = 0) => result.tiles \subseteq { m[result.pos] }

\* a search around (2, 3), three cells wide on x and none on y: the column
\* -1 is skipped, the tiles of the row are found but for the two empty cells
C13_Witness ==
    /\ result.op = "get_tiles_square" /\ result.pos = <<2, 3>>
    /\ result.arg = <<"tuple", 3, 0>> /\ result.plane = "foreground"
    /\ result.raised = "none"
    /\ { t.cell : t \in result.tiles } = { <<0, 3>>, <<1, 3>>, <<4, 3>>, <<5, 3>> }

\* C14: on a level whose grid is allocated, after remove_tile(pos, plane) with
\* an in-bounds pos, get_tile(pos, plane) returns no tile and the tile that
\* was at pos is not in the plane's tile set.
C14_RemovedIsGone ==
    (result.op = "remove_tile" /\ InGrid(result.pos) /\ GridAllocated) =>
        /\ result.raised = "none"
        /\ get_tile(PlaneMatrix(result.plane), map_size, result.pos).tile = NoTile
        /\ result.tile \notin PlaneTiles(result.plane)

\* remove_tile((3, 2)) returned: the tile it killed is still what the cell
\* (3, 2) of the matrix holds, and it is in no tile set
C14_Witness ==
    /\ result.op = "remove_tile" /\ result.pos = <<3, 2>> /\ result.plane = "foreground"
    /\ result.raised = "none" /\ result.tile # NoTile
    /\ matrix_foreground[<<3, 2>>] = result.tile
    /\ result.tile \notin foreground_tiles

\* the plane matrices and the plane tile sets
Level == <<matrix_foreground, matrix_background, foreground_tiles, background_tiles>>

\* the cell of pos in the matrix of the plane holds no tile
HoldsNoTile(p, plane) ==
    p \notin DOMAIN PlaneMatrix(plane) \/ PlaneMatrix(plane)[p] = NoTile

\* C15: a remove_tile call with an in-bounds pos changes neither the plane
\* matrices nor the tile sets when the call before it was remove_tile with the
\* same pos and plane (twice is the same as once), and when the cell of pos
\* holds no tile.
C15_RemoveIdempotent ==
    [][(result'.op = "remove_tile" /\ ops' = ops + 1 /\ InGrid(result'.pos)) =>
         /\ (/\ result.op = "remove_tile" /\ result.pos = result'.pos
             /\ result.plane = result'.plane) => UNCHANGED Level
         /\ HoldsNoTile(result'.pos, result'.plane) => UNCHANGED Level]_vars

\* remove_tile((3, 2)) called a second time on a cell that held a tile: the
\* first call changed the level, the second found the tile again and changed
\* nothing
C15_Witness ==
    /\ result.op = "remove_tile" /\ result.pos = <<3, 2>> /\ effect.again
    /\ result.raised = "none" /\ result.tile # NoTile
    /\ result.tile \notin foreground_tiles \cup background_tiles
    /\ ~effect.changed

\* C16: place_tile with the empty tile type "None" at an in-bounds pos raises
\* nothing, creates no tile and leaves both plane matrices and both tile sets
\* as they were, the tile already at pos included.
C16_EmptyCodeIsNoOp ==
    (result.op = "place_tile" /\ InGrid(result.pos) /\ result.arg[1] = "None") =>
        /\ result.raised = "none"
        /\ result.tile = NoTile
        /\ ~effect.changed

\* the empty code placed on a foreground cell that holds a tile
C16_Witness ==
    /\ result.op = "place_tile" /\ result.arg = <<"None", 0>>
    /\ result.pos = <<3, 2>> /\ result.plane = "foreground"
    /\ GridAllocated /\ matrix_foreground[<<3, 2>>] # NoTile
    /\ matrix_foreground[<<3, 2>>] \in foreground_tiles

\* C17: place_tile with a type that the graphics table lacks, at an in-bounds
\* pos of an allocated level, raises nothing, creates no tile and leaves the
\* plane matrices and tile sets as they were, like placing the empty code.
C17_UnknownTypeIsNoOp ==
    (/\ result.op = "place_tile" /\ InGrid(result.pos) /\ GridAllocated
     /\ result.arg[1] \notin DOMAIN graphics) =>
        /\ result.raised = "none"
        /\ result.tile = NoTile
        /\ ~effect.changed

\* with the game's table the unknown type "lava" put a tile of type "None",
\* with the image stored under "None", into the cell and the tile set
C17_Witness ==
    /\ result.op = "place_tile" /\ result.arg = <<"lava", 0>> /\ result.raised = "none"
    /\ result.tile # NoTile /\ result.tile.type = "None"
    /\ result.tile.image = <<"None", 0>>
    /\ PlaneMatrix(result.plane)[result.pos] = result.tile
    /\ result.tile \in PlaneTiles(result.plane)

\* ---- vocabulary of the claims about generate
\* generate has returned
Generated == gpc = "done" /\ raised = "none"

\* C18: after generate every foreground tile is collidable and every
\* background tile is not, every cell whose classified foreground type is not
\* "None" holds a foreground tile, and a cell holds a background tile exactly
\* when its foreground cell is empty or holds a tile of type "stone".
C18_GeneratedPlanes ==
    Generated =>
        /\ \A t \in foreground_tiles \cup TilesOf(matrix_foreground) : t.collidable = TRUE
        /\ \A t \in background_tiles \cup TilesOf(matrix_background) : t.collidable = FALSE
        /\ \A c \in GridCells :
             /\ ForegroundType(foreground_maze, MapWidth, MapHeight, border_size, c[1], c[2])
                  # "None" => matrix_foreground[c] # NoTile
             /\ matrix_background[c] # NoTile <=>
                  (matrix_foreground[c] = NoTile \/ matrix_foreground[c].type = "stone")

\* a generated level with a stone over a floor tile, an empty foreground cell
\* over a floor tile and a wall with no floor under it
C18_Witness ==
    /\ Generated
    /\ \E c \in GridCells : /\ matrix_foreground[c] # NoTile
                            /\ matrix_foreground[c].type = "stone"
                            /\ matrix_background[c] \in background_tiles
    /\ \E c \in GridCells : matrix_foreground[c] = NoTile /\ matrix_background[c] # NoTile
    /\ \E c \in GridCells : /\ matrix_foreground[c] \in foreground_tiles
                            /\ matrix_foreground[c].type = "wall"
                            /\ matrix_background[c] = NoTile

\* the tile was created by the generate call that is the last one made
OfThisGeneration(t) == t.id = GeneratedId(generation, t.id[3], t.cell)

\* C19: when a generate call has returned, both plane matrices and both plane
\* tile sets hold only tiles created by that call: no tile of the level
\* before it, generated or placed, is left in a matrix or in a tile set.
C19_GenerateReplaces ==
    result.op = "generate" =>
        /\ GridAllocated
        /\ \A t \in TilesOf(matrix_foreground) \cup TilesOf(matrix_background) :
             OfThisGeneration(t)
        /\ \A t \in foreground_tiles \cup background_tiles : OfThisGeneration(t)

\* the second generate call has returned and has put tiles into both planes
C19_Witness ==
    /\ result.op = "generate" /\ generation = 2 /\ effect.changed
    /\ foreground_tiles # {} /\ background_tiles # {}
    /\ foreground_tiles = TilesOf(matrix_foreground)
    /\ background_tiles = TilesOf(matrix_background)

\* C20: in every state reached by the public operations of Map each plane
\* matrix has exactly height rows of exactly width cells, and get_tile
\* succeeds on both planes for every position inside the grid.
C20_MatricesMatchSize ==
    /\ MatrixRows(matrix_foreground) = MapHeight /\ MatrixCols(matrix_foreground) = MapWidth
    /\ MatrixRows(matrix_background) = MapHeight /\ MatrixCols(matrix_background) = MapWidth
    /\ \A p \in GridCells, plane \in Planes :
         get_tile(PlaneMatrix(plane), map_size, p).raised = "none"

\* after clear() the size is still that of the level, the matrices have no
\* row, and get_tile with a position inside the grid ended with IndexError
C20_Witness ==
    /\ result.op = "get_tile" /\ InGrid(result.pos) /\ result.raised = "IndexError"
    /\ size = LevelSize
    /\ MatrixRows(matrix_foreground) = 0 /\ MatrixRows(matrix_background) = 0
\* ---- vocabulary of the membership claims
TwoSided(s, g) == (s \in item_set[g]) <=> (g \in sprite_groups[s])

InNoGroup(s) == sprite_groups[s] = {} /\ \A g \in SpriteGroups : s \notin item_set[g]

\* C21: after any sequence of add_to, remove_from, kill, add, remove and empty a
\* sprite is in a group's item set exactly when the group is in the sprite's own
\* group list, and after kill the killed sprite belongs to no group.
C21_TwoSidedMembership ==
    /\ \A s \in Sprites, g \in SpriteGroups : TwoSided(s, g)
    /\ group_call.op = "kill" => InNoGroup(group_call.sprite)

\* a sprite lists a group whose add refused it: the call raised TypeError after
\* the sprite had recorded the group
C21_Witness ==
    /\ group_call.op = "add_to"
    /\ group_call.raised = "TypeError"
    /\ group_call.group \in sprite_groups[group_call.sprite]
    /\ group_call.sprite \notin item_set[group_call.group]

\* ---- vocabulary of the carving claims
\* the border-trimmed interior of the half-resolution maze
TrimmedInterior(x, y) ==
    /\ HalfBorder <= x /\ x < HalfWidth - HalfBorder
    /\ HalfBorder <= y /\ y < HalfHeight - HalfBorder

\* the offsets <<dx, dy>> of the eight neighbours of a cell
EightNeighbours == ((-1..1) \X (-1..1)) \ { <<0, 0>> }

WasFrontier(x, y) ==
    /\ x \in 0..HalfWidth - 1 /\ y \in 0..HalfHeight - 1
    /\ TrimmedInterior(x, y)
    /\ carved[y][x] = HOLE

WideningDone == gpc = "expand"

\* C23: after the widening pass every cell that was Frontier inside the
\* border-trimmed interior is Open, and so is each of its eight neighbours
\* that lies inside the border-trimmed interior.
C23_WideningOpensEight ==
    WideningDone =>
        \A x \in 0..HalfWidth - 1, y \in 0..HalfHeight - 1 :
            WasFrontier(x, y) =>
                /\ maze[y][x] = AIR
                /\ \A d \in EightNeighbours :
                       TrimmedInterior(x + d[1], y + d[2]) => maze[y + d[2]][x + d[1]] = AIR

\* a Frontier cell of the interior whose neighbour below and to the left lies
\* in the interior and is still Wall after the pass, the other seven being Open
C23_Witness ==
    /\ WideningDone
    /\ \E x \in 1..HalfWidth - 1, y \in 0..HalfHeight - 2 :
          /\ WasFrontier(x, y)
          /\ TrimmedInterior(x - 1, y + 1)
          /\ maze[y + 1][x - 1] = WALL
          /\ \A d \in EightNeighbours \ { <<-1, 1>> } :
                 TrimmedInterior(x + d[1], y + d[2]) /\ maze[y + d[2]][x + d[1]] = AIR

\* ---- vocabulary of the smoothing claims
Smoothing == gpc = "smooth"

\* the cells a smoothing iteration visits
Visited == { c \in (0..MapWidth - 1) \X (0..MapHeight - 1) :
                ~SmoothSkips(c[1], c[2], MapWidth, MapHeight, border_size) }

\* the value a smoothing iteration reads at a cell: outside the grid is Wall
ValueAt(m, x, y) ==
    IF is_within_bounds(x, y, MapWidth, MapHeight) THEN m[y][x] ELSE WALL

\* the reference counts: over the eight distinct neighbours, once each
ReferenceCount(m, x, y, value) ==
    Cardinality({ d \in EightNeighbours : ValueAt(m, x + d[1], y + d[2]) = value })

\* C24: in every smoothing iteration the Wall count and the Open count of an
\* interior cell are taken over its eight distinct neighbours, each once (outside
\* the grid counting as Wall): the counts sum to 8 and equal the reference
\* 8-neighbourhood counts.
C24_CountsOverEightNeighbours ==
    Smoothing =>
        \A c \in Visited :
            LET walls == wall_count(maze, MapWidth, MapHeight, c[1], c[2])
                airs  == air_count(maze, MapWidth, MapHeight, c[1], c[2])
            IN  /\ walls + airs = 8
                /\ walls = ReferenceCount(maze, c[1], c[2], WALL)
                /\ airs = ReferenceCount(maze, c[1], c[2], AIR)

\* a visited cell whose left neighbour is Wall and whose lower-left neighbour is
\* Open: the counts sum to 8, with one Wall more and one Open less than the
\* reference
C24_Witness ==
    /\ Smoothing
    /\ \E c \in Visited :
          LET walls == wall_count(maze, MapWidth, MapHeight, c[1], c[2])
              airs  == air_count(maze, MapWidth, MapHeight, c[1], c[2])
          IN  /\ ValueAt(maze, c[1] - 1, c[2]) = WALL
              /\ ValueAt(maze, c[1] - 1, c[2] + 1) = AIR
              /\ walls + airs = 8
              /\ walls = ReferenceCount(maze, c[1], c[2], WALL) + 1
              /\ airs = ReferenceCount(maze, c[1], c[2], AIR) - 1

\* a step of SmoothIteration: every __smooth_maze call of generate makes three
\* iterations or more, so each one changes the loop index
SmoothStep == gpc = "smooth" /\ smooth_i' # smooth_i

MazeCells == (0..MapWidth - 1) \X (0..MapHeight - 1)

SameShape(m, n) ==
    /\ DOMAIN m = DOMAIN n
    /\ \A y \in DOMAIN m : DOMAIN m[y] = DOMAIN n[y]

\* the cell changed, and the value it had and the values its neighbours had
\* before the iteration allow the change
FromSnapshot(c) ==
    LET p == SmoothCalls[smooth_call]
    IN  \/ /\ c \in CanWall(maze, MapWidth, MapHeight, border_size, p)
           /\ maze'[c[2]][c[1]] = WALL
        \/ /\ c \in CanAir(maze, MapWidth, MapHeight, border_size, p)
           /\ maze'[c[2]][c[1]] = AIR

\* C25: the updates of a smoothing iteration are simultaneous: every cell's new
\* value follows from the values the cell and its neighbours had before the
\* iteration; the matrix the caller passed is not altered while the call runs,
\* and the result has the shape of the input.
C25_SimultaneousUpdates ==
    [][SmoothStep =>
          /\ SameShape(maze, maze')
          /\ \A c \in MazeCells :
                 maze'[c[2]][c[1]] # maze[c[2]][c[1]] => FromSnapshot(c)
          /\ smooth_i' # 0 => /\ foreground_maze' = foreground_maze
                              /\ background_maze' = background_maze
          /\ smooth_call = 3 => foreground_maze' = foreground_maze]_vars

\* the first iteration of the first call changed two cells next to each other,
\* and the caller's matrix still is the input
C25_Witness ==
    /\ Smoothing
    /\ smooth_call = 1
    /\ smooth_i = 1
    /\ SameShape(maze, foreground_maze)
    /\ \E c \in MazeCells :
          /\ c[1] + 1 < MapWidth
          /\ maze[c[2]][c[1]] # foreground_maze[c[2]][c[1]]
          /\ maze[c[2]][c[1] + 1] # foreground_maze[c[2]][c[1] + 1]

\* a step of SmoothMaze
SmoothMazeStep == gpc = "smooth_maze" /\ smooth_i' # smooth_i

\* C26: in a smoothing iteration an Open cell becomes Wall only if its Wall
\* count reaches wall_neighbors and stop_wall < 10, and a visited one always
\* does when the count is reached and stop_wall = 0; a Wall cell becomes Open
\* only if its Open count reaches air_neighbors and stop_air < 10, and a visited
\* one always does when the count is reached and stop_air = 0; every other cell
\* is unchanged, so with stop_wall = 10 no Open cell becomes Wall.
C26_FlipsFollowThresholds ==
    [][SmoothMazeStep =>
          LET p == SmoothArgs[smooth_call]
          IN  \A c \in MazeCells :
                  LET before == maze[c[2]][c[1]]
                      after  == maze'[c[2]][c[1]]
                      walls  == wall_count(maze, MapWidth, MapHeight, c[1], c[2])
                      airs   == air_count(maze, MapWidth, MapHeight, c[1], c[2])
                  IN  /\ after # before =>
                            \/ before = AIR /\ after = WALL /\ walls >= p.wall_neighbors
                                            /\ p.stop_wall < 10
                            \/ before = WALL /\ after = AIR /\ airs >= p.air_neighbors
                                             /\ p.stop_air < 10
                      /\ (c \in Visited /\ before = AIR /\ walls >= p.wall_neighbors
                                        /\ p.stop_wall = 0) => after = WALL
                      /\ (c \in Visited /\ before = WALL /\ airs >= p.air_neighbors
                                        /\ p.stop_air = 0) => after = AIR
                      /\ (p.stop_wall = 10 /\ before = AIR) => after = AIR]_vars

\* after the one iteration of a call with stop_wall = 0 and stop_air = 10 an
\* Open cell of the input with enough Wall neighbours is Wall, and an Open cell
\* with fewer is still Open
C26_Witness ==
    /\ gpc = "returned"
    /\ SmoothArgs[smooth_call].stop_wall = 0
    /\ SmoothArgs[smooth_call].stop_air = 10
    /\ \E c \in Visited, d \in Visited :
          /\ foreground_maze[c[2]][c[1]] = AIR
          /\ wall_count(foreground_maze, MapWidth, MapHeight, c[1], c[2])
                 >= SmoothArgs[smooth_call].wall_neighbors
          /\ maze[c[2]][c[1]] = WALL
          /\ foreground_maze[d[2]][d[1]] = AIR
          /\ wall_count(foreground_maze, MapWidth, MapHeight, d[1], d[2])
                 < SmoothArgs[smooth_call].wall_neighbors
          /\ maze[d[2]][d[1]] = AIR

\* ---- vocabulary of the classifier claims
\* the classifier is about to run on foreground_maze and background_maze
Classifying == gpc = "tilemap"

\* runs of the random source compared: the constant lowest draw, two that
\* vary from cell to cell, and one named differently that draws as <<7, 3>>
RandomRuns == { <<0, 0>>, <<7, 3>>, <<107, 3>>, <<37, 50>> }

\* the run every other one is compared with
ReferenceRun == <<0, 0>>

Classified(run) ==
    tilemap_maze(background_maze, foreground_maze, MapWidth, MapHeight, border_size, run)

SameDraws(r1, r2) ==
    \A k \in 0..MapWidth * MapHeight - 1 : Draw(r1, k) = Draw(r2, k)

\* C22: the classifier is deterministic given its inputs and the random draws:
\* two runs on the same matrices with the same draws return the same codes, and
\* whatever the draws the type of every cell of both planes and the whole
\* foreground code, the variant of every "wall" included, are those of the
\* reference run.
C22_ClassifierDeterministic ==
    Classifying =>
        LET reference == Classified(ReferenceRun)
        IN  \A r1 \in RandomRuns :
                LET first == Classified(r1)
                IN  /\ \A r2 \in RandomRuns : SameDraws(r1, r2) => first = Classified(r2)
                    /\ first[2] = reference[2]
                    /\ \A c \in MazeCells : first[1][c][1] = reference[1][c][1]

\* two runs whose draws give some background cell different variants, on a
\* foreground that holds a "wall" code of a variant other than 0
C22_Witness ==
    /\ Classifying
    /\ \E r1 \in RandomRuns, r2 \in RandomRuns :
          LET first  == Classified(r1)
              second == Classified(r2)
          IN  /\ \E c \in MazeCells : first[1][c][2] # second[1][c][2]
              /\ \E c \in MazeCells : first[2][c][1] = "wall" /\ first[2][c][2] > 0

\* the value of the foreground maze at a cell; a neighbour the matrix lacks is
\* neither Wall nor Open
ForegroundAt(x, y) ==
    IF is_within_bounds(x, y, MapWidth, MapHeight) THEN foreground_maze[y][x] ELSE "missing"

\* the foreground codes the classifier returns for the mazes of the state
ForegroundCodes == Classified(ReferenceRun)[2]

\* the code the rule of the four neighbours gives a Wall cell
NeighbourRule(x, y) ==
    LET South == ForegroundAt(x, y + 1)
        North == ForegroundAt(x, y - 1)
        East  == ForegroundAt(x + 1, y)
        West  == ForegroundAt(x - 1, y)
    IN  CASE South = WALL -> <<"wall_top", -1>>
          [] South # WALL /\ North = AIR -> <<"stone", -1>>
          [] South # WALL /\ North # AIR /\ West = WALL /\ East = WALL -> <<"wall", 0>>
          [] South # WALL /\ North # AIR /\ West = WALL /\ East # WALL -> <<"wall", 1>>
          [] South # WALL /\ North # AIR /\ West # WALL /\ East = WALL -> <<"wall", 2>>
          [] South # WALL /\ North # AIR /\ West # WALL /\ East # WALL -> <<"wall", 3>>

\* C27: a foreground Wall cell outside the border is coded wall_top if South is
\* Wall; otherwise stone if North is Open; otherwise wall, of variant 0 if West
\* and East are both Wall, 1 if only West is, 2 if only East is, 3 if neither.
C27_WallCellsByNeighbours ==
    Classifying =>
        LET codes == ForegroundCodes
        IN  \A c \in Visited :
                foreground_maze[c[2]][c[1]] = WALL => codes[c] = NeighbourRule(c[1], c[2])

\* a level of the game's border size whose Wall cells outside the border take
\* a wall_top and the wall variants 1 and 2
C27_Witness ==
    /\ Classifying
    /\ border_size = BorderSize
    /\ LET codes == ForegroundCodes
           walls == { c \in Visited : foreground_maze[c[2]][c[1]] = WALL }
       IN  \A code \in { <<"wall_top", -1>>, <<"wall", 1>>, <<"wall", 2>> } :
               \E c \in walls : codes[c] = code

InBorder(c) == SmoothSkips(c[1], c[2], MapWidth, MapHeight, border_size)

FirstInteriorRow(c) == ~InBorder(c) /\ c[2] = border_size

\* C28: in the foreground codes every cell of a border row or column is
\* wall_top, every Open cell of the first interior row outside the border
\* columns is wall 0, and every other Open cell has the empty type; so after
\* generate an Open interior cell below the first interior row holds no
\* foreground tile.
C28_BorderCapAndOpenCells ==
    Generated =>
        LET codes == ForegroundCodes
        IN  \A c \in MazeCells :
                /\ InBorder(c) => codes[c][1] = "wall_top"
                /\ (FirstInteriorRow(c) /\ foreground_maze[c[2]][c[1]] = AIR)
                       => codes[c] = <<"wall", 0>>
                /\ (~InBorder(c) /\ ~FirstInteriorRow(c) /\ foreground_maze[c[2]][c[1]] = AIR)
                       => /\ codes[c][1] = "None"
                          /\ matrix_foreground[c] = NoTile

\* a generated level of the game's border size with an Open cell in the first
\* interior row, which holds a wall tile, and an Open cell below it, which
\* holds none
C28_Witness ==
    /\ Generated
    /\ border_size = BorderSize
    /\ \E c \in MazeCells :
          /\ FirstInteriorRow(c)
          /\ foreground_maze[c[2]][c[1]] = AIR
          /\ matrix_foreground[c] # NoTile
          /\ matrix_foreground[c].type = "wall"
          /\ foreground_maze[c[2] + 1][c[1]] = AIR
          /\ matrix_foreground[<<c[1], c[2] + 1>>] = NoTile

\* draws of the random source, in hundredths: the lowest, the highest, and the
\* two on either side of every step of the two tables of weights
AllDraws == { 0, 34, 35, 44, 45, 69, 70, 74, 75, 79, 80, 84, 85, 89, 90, 99 }

\* the codes a background cell can get, over those draws
BackgroundCodesOf(x, y) == { BackgroundCode(background_maze, x, y, r) : r \in AllDraws }

\* C29: the code of a background cell depends only on the cell's own value: a
\* Wall cell gets stone_floor with a variant in 0..3 and any other cell gets
\* dirt_floor with a variant in 0..5; no background cell has the empty type.
C29_BackgroundByOwnCell ==
    Classifying =>
        \A c \in MazeCells :
            LET codes == BackgroundCodesOf(c[1], c[2])
            IN  /\ \A r \in RandomRuns : Classified(r)[1][c] \in codes
                /\ IF background_maze[c[2]][c[1]] = WALL
                   THEN codes = { <<"stone_floor", v>> : v \in 0..3 }
                   ELSE codes = { <<"dirt_floor", v>> : v \in 0..5 }

\* the classifier is about to code a background that has a Wall cell and an
\* Open cell outside the border, and one run codes them stone_floor 3 and
\* dirt_floor 5
C29_Witness ==
    /\ Classifying
    /\ \E c \in Visited, d \in Visited :
          /\ background_maze[c[2]][c[1]] = WALL
          /\ background_maze[d[2]][d[1]] = AIR
          /\ <<"stone_floor", 3>> \in BackgroundCodesOf(c[1], c[2])
          /\ <<"dirt_floor", 5>> \in BackgroundCodesOf(d[1], d[2])

\* __create_maze has returned and its result is still the foreground maze
CarverReturned == gpc = "smooth" /\ smooth_call = 1

\* the half-resolution maze the widening pass left
HalfMaze == Polished(carved, HalfWidth, HalfHeight, HalfBorder)

\* C30: the carver's output has exactly H rows of W cells, holds only Wall and
\* Open values (no Frontier cell survives), and every aligned 2 x 2 block is
\* uniform and equal to the half-resolution cell of its row and column.
C30_CarverOutputShape ==
    CarverReturned =>
        /\ DOMAIN foreground_maze = 0..MapHeight - 1
        /\ \A y \in 0..MapHeight - 1 :
               /\ DOMAIN foreground_maze[y] = 0..MapWidth - 1
               /\ \A x \in 0..MapWidth - 1 : foreground_maze[y][x] \in { WALL, AIR }
        /\ \A i \in 0..HalfHeight - 1, j \in 0..HalfWidth - 1 :
               \A dy \in 0..1, dx \in 0..1 :
                   foreground_maze[2 * i + dy][2 * j + dx] = HalfMaze[i][j]

\* a returned maze, not square, whose carving left a Frontier cell in the border
\* margin and one inside it: the first is a block of Wall, the second a block
\* of Open
C30_Witness ==
    /\ CarverReturned
    /\ MapWidth # MapHeight
    /\ \E i \in 0..HalfHeight - 1, j \in 0..HalfWidth - 1 :
          /\ carved[i][j] = HOLE
          /\ InMargin(j, i, HalfWidth, HalfHeight, HalfBorder)
          /\ \A dy \in 0..1, dx \in 0..1 : foreground_maze[2 * i + dy][2 * j + dx] = WALL
    /\ \E i \in 0..HalfHeight - 1, j \in 0..HalfWidth - 1 :
          /\ carved[i][j] = HOLE
          /\ ~InMargin(j, i, HalfWidth, HalfHeight, HalfBorder)
          /\ \A dy \in 0..1, dx \in 0..1 : foreground_maze[2 * i + dy][2 * j + dx] = AIR

\* ---- the movement claims of the second reading
\* the distance the running call set out to walk on each axis
Planned == WalkDistance(direction, call.distance)

\* the axes on which the running call was stopped by a tile or a target
Stopped(axis) == met \cap {"tile_" \o axis, "hit_" \o axis} # {}

\* C31: a sub-step that overlaps a collidable tile snaps the collider and the
\* position on its own axis only and zeroes only that axis' remaining
\* distance: the position, collider and hitbox coordinate of the other axis
\* and the other axis' remaining distance are as before the sub-step; and a
\* call that returns after a tile stopped one axis while nothing stopped the
\* other has walked the other axis' whole planned distance.
C31_AxisIndependence ==
    [][ /\ pc = "x" /\ last'.tile =>
              /\ distance_to_walk'[1] = 0
              /\ distance_to_walk'[2] = distance_to_walk[2]
              /\ pos'[2] = pos[2] /\ collider'.y = collider.y /\ hitbox'.y = hitbox.y
              /\ pos'[1] = collider'.x * Scale
        /\ pc = "y" /\ last'.tile =>
              /\ distance_to_walk'[2] = 0
              /\ distance_to_walk'[1] = distance_to_walk[1]
              /\ pos'[1] = pos[1] /\ collider'.x = collider.x /\ hitbox'.x = hitbox.x
              /\ pos'[2] = collider'.y * Scale
        /\ pc # "idle" /\ pc' = "idle" /\ "tile_x" \in met' /\ met' \cap {"tile_y", "hit_y"} = {}
              => pos'[2] = call.pos[2] + Sign(direction[2]) * Planned[2]
        /\ pc # "idle" /\ pc' = "idle" /\ "tile_y" \in met' /\ met' \cap {"tile_x", "hit_x"} = {}
              => pos'[1] = call.pos[1] + Sign(direction[1]) * Planned[1]
      ]_vars

C31_Witness ==
    /\ Returned /\ met = {"tile_x"} /\ ret = TRUE
    /\ pos[2] # call.pos[2] /\ pos[1] = collider.x * Scale
    /\ Flush(collider, "x", direction)

\* a _move call returns in this step
Returns == pc # "idle" /\ pc' = "idle"

\* the hitbox of the last sub-step, as advanced, overlaps a target's hitbox
OverTarget == \E e \in targets : colliderect(last.preHitbox, e)

\* C32: the update of a projectile sets its health to -1 (check_death true)
\* exactly when its _move returns True, which is exactly when a sub-step of the
\* call was stopped by a collidable tile under the advanced collider or by a
\* target's hitbox under the advanced hitbox; otherwise the health is as before
\* the update.  A sub-step stopped by a target takes Damage from the target's
\* health and makes it invulnerable if it was vulnerable, and leaves the target
\* as it was if not; the projectile is stopped either way; no other sub-step
\* touches the target.
C32_ProjectileEndsOnCollision ==
    [][ kind = "projectile" =>
          /\ Returns =>
                /\ ret' = (met' # {})
                /\ health' = IF ret' = TRUE THEN -1 ELSE health
                /\ health' <= 0 <=> ret' = TRUE \/ health <= 0
          /\ pc \in {"x", "y"} /\ pc' # "error" /\ last'.axis # "none" =>
                /\ last'.tile <=> Overlaps(last'.pre)
                /\ last'.hit <=> ~last'.tile /\ (OverTarget)'
                /\ last'.tile \/ last'.hit =>
                      collided' /\ distance_to_walk'[IF pc = "x" THEN 1 ELSE 2] = 0
                /\ last'.hit /\ target_life.vulnerable =>
                      /\ target_life'.health = target_life.health - Damage
                      /\ ~target_life'.vulnerable
                /\ ~(last'.hit /\ target_life.vulnerable) => target_life' = target_life
          /\ pc = "idle" => target_life' = target_life
      ]_vars

\* a projectile that overlapped its target in both sub-steps of one call: the
\* first took health, the second found it invulnerable, and the update ended
\* the projectile
C32_Witness ==
    /\ Returned /\ kind = "projectile" /\ {"hit_x", "hit_y"} \subseteq met /\ ret = TRUE
    /\ health = -1
    /\ target_life.health = MaxHealth - Damage /\ ~target_life.vulnerable

\* ---- the level claims of the second reading
\* the tiles the non-empty cells of a matrix reference
Referenced(m) == { m[c] : c \in DOMAIN m } \ {NoTile}

\* no tile is referenced by two cells of the matrix
OneCellEach(m) ==
    \A c, d \in DOMAIN m : m[c] # NoTile /\ m[c] = m[d] => c = d

\* C33 (as stated): after any sequence of generate, place_tile and remove_tile
\* calls the tile set of each plane is exactly the set of tiles the non-empty
\* cells of the plane's matrix reference, and no tile occupies two cells.
C33_TileSetMatchesMatrix ==
    \A plane \in Planes :
        /\ PlaneTiles(plane) = Referenced(PlaneMatrix(plane))
        /\ OneCellEach(PlaneMatrix(plane))

\* remove_tile((2, 3)) returned: the tile it read at (2, 3) is detached from
\* the set and still referenced by its cell
C33_Witness ==
    /\ result.op = "remove_tile" /\ result.raised = "none" /\ result.pos = <<2, 3>>
    /\ result.tile # NoTile
    /\ PlaneMatrix(result.plane)[<<2, 3>>] = result.tile
    /\ result.tile \notin PlaneTiles(result.plane)

\* C34 (as stated): remove_tile(pos, plane) changes nothing but the cell at
\* pos of the given plane: every other cell of that plane's matrix and the
\* matrix and tile set of the other plane are as before, and the only tile
\* that can leave the plane's set is the one that was at pos.
C34_RemoveTouchesOnlyPos ==
    [][ \A plane \in Planes :
          ops' = ops + 1 /\ result'.op = "remove_tile" /\ result'.plane = plane =>
            LET other == OtherPlane(plane)
                m     == PlaneMatrix(plane)
            IN  /\ \A c \in DOMAIN m : c # result'.pos => PlaneMatrix(plane)'[c] = m[c]
                /\ PlaneMatrix(other)' = PlaneMatrix(other)
                /\ PlaneTiles(other)' = PlaneTiles(other)
                /\ PlaneTiles(plane) \ PlaneTiles(plane)' \subseteq
                      { m[c] : c \in DOMAIN m \cap {result'.pos} }
      ]_vars

\* remove_tile((2, 3)) on the foreground returned after killing a tile and
\* left cell (3, 2) empty while cell (2, 3) still holds the tile it killed
C34_Witness ==
    /\ result.op = "remove_tile" /\ result.raised = "none" /\ result.pos = <<2, 3>>
    /\ result.plane = "foreground" /\ result.tile # NoTile /\ effect.changed
    /\ matrix_foreground[<<3, 2>>] = NoTile
    /\ matrix_foreground[<<2, 3>>] = result.tile

\* the foreground maze of the state inside one more ring of cells of value v
Ringed(v) ==
    [y \in 0..MapHeight + 1 |-> [x \in 0..MapWidth + 1 |->
        IF x \in 1..MapWidth /\ y \in 1..MapHeight THEN foreground_maze[y - 1][x - 1] ELSE v]]

\* the code the classifier gives cell c when every neighbour the matrix lacks
\* is replaced by a cell of value v (the ring belongs to the border)
CodeInRing(c, v) ==
    ForegroundCode(Ringed(v), MapWidth + 2, MapHeight + 2, border_size + 1, c[1] + 1, c[2] + 1)

AxisNeighbours(c) ==
    { <<c[1] + 1, c[2]>>, <<c[1] - 1, c[2]>>, <<c[1], c[2] + 1>>, <<c[1], c[2] - 1>> }

\* C35: with a border of size >= 1 every foreground Wall cell the classifier
\* applies the rule of the four neighbours to (a Wall cell outside the border
\* rows and columns) has its four axis neighbours inside the matrix, and the
\* code of every cell is the one it would get if the cells the matrix lacks
\* were Wall, or Open: no outcome depends on a missing neighbour.
C35_NeighboursResolved ==
    Classifying /\ border_size >= 1 =>
        /\ \A c \in Visited :
              foreground_maze[c[2]][c[1]] = WALL =>
                  \A n \in AxisNeighbours(c) : ForegroundAt(n[1], n[2]) # "missing"
        /\ \A c \in MazeCells :
              LET code == ForegroundCode(foreground_maze, MapWidth, MapHeight, border_size,
                                         c[1], c[2])
              IN  code = CodeInRing(c, WALL) /\ code = CodeInRing(c, AIR)

\* the game's border size: a Wall cell of the last interior column coded wall
\* with East read from the border column, and a Wall cell of the last interior
\* row coded wall_top with South read from the border row
C35_Witness ==
    /\ Classifying /\ border_size = BorderSize
    /\ \E c \in Visited :
          /\ foreground_maze[c[2]][c[1]] = WALL /\ c[1] = MapWidth - BorderSize - 1
          /\ ForegroundCodes[c] \in { <<"wall", 0>>, <<"wall", 2>> }
    /\ \E c \in Visited :
          /\ foreground_maze[c[2]][c[1]] = WALL /\ c[2] = MapHeight - BorderSize - 1
          /\ ForegroundCodes[c] = <<"wall_top", -1>>

\* ---- the centre of the level
\* the cell whose pixel position Game.__init__ gives the player
CentreCell == <<MapWidth \div 2, MapHeight \div 2>>

\* the 2 x 2 block the start cell of the carver is expanded to
StartBlock ==
    LET s == StartCell(HalfWidth, HalfHeight)
    IN  { <<2 * s[1] + dx, 2 * s[2] + dy>> : dx \in 0..1, dy \in 0..1 }

ForegroundAssigned == gpc \in {"smooth", "tilemap", "done"} /\ raised = "none"

\* C36: with the border size of Map.__init__, the centre cell belongs to the
\* block the carver's start cell is expanded to; that block is Open in the maze
\* the carver returns and in the foreground maze from then on (the foreground
\* smoothing closes no cell of it), and after generate the centre cell is Open
\* in the final foreground maze and holds no foreground tile.
C36_CentreIsOpen ==
    ForegroundAssigned /\ border_size = BorderSize =>
        /\ CentreCell \in StartBlock
        /\ \A c \in StartBlock : foreground_maze[c[2]][c[1]] = AIR
        /\ smooth_call \in {1, 2} /\ gpc = "smooth" =>
              \A c \in StartBlock : maze[c[2]][c[1]] = AIR
        /\ Generated =>
              /\ foreground_maze[CentreCell[2]][CentreCell[1]] = AIR
              /\ matrix_foreground[CentreCell] = NoTile

\* a generated level of the game's border size whose centre cell is the far
\* corner of the start block, with a foreground tile next to the block
C36_Witness ==
    /\ Generated /\ border_size = BorderSize
    /\ CentreCell = <<2 * StartCell(HalfWidth, HalfHeight)[1] + 1,
                      2 * StartCell(HalfWidth, HalfHeight)[2] + 1>>
    /\ matrix_foreground[CentreCell] = NoTile
    /\ matrix_background[CentreCell] # NoTile
    /\ \E c \in Visited : matrix_foreground[c] # NoTile

\* ---- the game loop claims
\* C37 (as stated): two successive losses of health of an entity are separated
\* by at least its grace time of elapsed update time, whatever it does in
\* between; for the player: the update time that had elapsed at its last loss
\* of health since the loss before is at least the grace time.
C37_GraceBetweenLosses == player.gap >= player.grace_time

\* the player lost health twice with only the air time of a dodge in between
C37_Witness ==
    /\ player.health = MaxHealth - 2
    /\ player.gap = AirTime /\ player.gap < player.grace_time
    /\ player.dodging /\ ~player.vulnerable

\* C38: a frame that starts with the player's health <= 0 sets game_over;
\* game_over, once set, stays set; the player's health, once <= 0, never
\* rises above 0; and in every frame that starts with game_over set or the
\* player dead the score is unchanged and no enemy is created.
C38_GameOverAbsorbing ==
    [][ /\ player.health <= 0 => game'.game_over
        /\ game.game_over => game'.game_over /\ player.health <= 0
        /\ player.health <= 0 => player'.health <= 0
        /\ game.game_over \/ player.health <= 0 =>
              /\ game'.score = game.score
              /\ game'.spawned = game.spawned
              /\ game'.enemies <= game.enemies
      ]_vars

\* game over, with an enemy killed after the player died: the score is the one
\* the player died with
C38_Witness ==
    /\ game.game_over /\ player.health <= 0
    /\ game.spawned > game.enemies /\ game.score < EnemyValue /\ game.score > 0

\* ========================================================= Game._spawn_enemies
\* The search radius of _spawn_enemies, made a pair by get_tiles_square
SpawnRadius == <<10, 10>>

\* A level tall enough for cells to lie outside the square of SpawnRadius:
\* <<rows, columns>>, two interior columns and thirteen interior rows
SpawnSize == <<13 + 2 * BorderSize, 2 + 2 * BorderSize>>

\* the interior Wall cells the erosion of the foreground maze left
SpawnWalls == { {}, {<<2, 3>>}, {<<2, 3>>, <<3, 3>>}, {<<3, 13>>} }

\* the cells the player's top-left corner can be in: the interior of the level
SpawnPlayerTiles ==
    (BorderSize..SpawnSize[2] - BorderSize - 1) \X (BorderSize..SpawnSize[1] - BorderSize - 1)

\* Tile.pos: the pixel position place_tile gave the tile of a cell
TilePixelPos(t) == <<t.cell[1] * TileSize, t.cell[2] * TileSize>>

\* Tile.tile_pos: the cell of the pixel position
TileTilePos(t) == <<TilePixelPos(t)[1] \div TileSize, TilePixelPos(t)[2] \div TileSize>>

\* Game.__init__ finished on a level of SpawnSize: no spawn is running
InitSpawn ==
    /\ size = SpawnSize
    /\ border_size = BorderSize
    /\ map_size = <<size[2], size[1]>>
    /\ graphics = GameGraphics
    /\ \E walls \in SpawnWalls : foreground_maze = RoomMaze(size[2], size[1], walls)
    /\ background_maze = foreground_maze
    /\ maze = background_maze
    /\ matrix_foreground =
          ForegroundMatrix(1, foreground_maze, size[2], size[1], border_size)
    /\ matrix_background =
          BackgroundMatrix(1, foreground_maze, background_maze, size[2], size[1],
                           border_size)
    /\ foreground_tiles = TilesOf(matrix_foreground)
    /\ background_tiles = TilesOf(matrix_background)
    /\ generation = 1
    /\ ops = 0
    /\ result = NoCall
    /\ effect = NoEffect
    /\ NoGroups
    /\ NoGame
    /\ stack = <<>>
    /\ carved = <<>>
    /\ gpc = "done"
    /\ raised = "none"
    /\ smooth_call = 3
    /\ smooth_i = 0
    /\ kind = "none"
    /\ targets = {}
    /\ pos = <<0, 0>>
    /\ collider = Rect(0, 0, 0, 0)
    /\ hitbox = Rect(0, 0, 0, 0)
    /\ pc = "idle"
    /\ direction = <<0, 0>>
    /\ distance_to_walk = <<0, 0>>
    /\ collided = FALSE
    /\ ret = "none"
    /\ call = [distance |-> 0, direction |-> <<0, 0>>, pos |-> pos,
               collider |-> collider, hitbox |-> hitbox]
    /\ tests = NoTests
    /\ met = {}
    /\ last = NoStep
    /\ moves = 0
    /\ health = MaxHealth
    /\ target_life = NewLife

\* what a step of _spawn_enemies leaves alone
SpawnFrame ==
    /\ UNCHANGED <<player, game, listed, frame>>
    /\ UNCHANGED moveVars
    /\ UNCHANGED mapVars
    /\ UNCHANGED levelVars
    /\ UNCHANGED groupVars

\* _spawn_enemies, lines 183-188: the background tiles of the square around
\* the player's tile are taken out of the background tiles of the map;
\* get_tiles_square raises IndexError for a tile outside the map
SpawnStart(tp) ==
    /\ spawn.pc \in { "idle", "spawned" }
    /\ IF ~is_within_bounds(tp[1], tp[2], map_size[1], map_size[2])
       THEN /\ spawn' = [NoSpawn EXCEPT !.pc = "raised", !.player_tile = tp]
            /\ available' = {}
       ELSE /\ available' = background_tiles
                            \ get_tiles_square(matrix_background, map_size, tp, SpawnRadius)
            /\ spawn' = [NoSpawn EXCEPT !.pc = "pick", !.player_tile = tp,
                                        !.candidates = Cardinality(available')]
    /\ SpawnFrame

\* one round of the while loop, lines 190-196, drawing a tile of the
\* candidates left: a tile over whose cell get_tile finds no foreground tile
\* ends the loop, and the enemy is created at the tile's pixel position (lines
\* 198-201); any other tile is removed from the candidates
SpawnPick(tile) ==
    /\ spawn.pc = "pick"
    /\ tile \in available
    /\ LET found == get_tile(matrix_foreground, map_size, TileTilePos(tile))
       IN  IF found.raised # "none"
           THEN /\ spawn' = [spawn EXCEPT !.pc = "raised", !.picks = @ + 1]
                /\ UNCHANGED available
           ELSE IF found.tile = NoTile
           THEN /\ spawn' = [spawn EXCEPT !.pc = "spawned", !.picks = @ + 1,
                                          !.tile = tile, !.pos = TilePixelPos(tile)]
                /\ UNCHANGED available
           ELSE /\ spawn' = [spawn EXCEPT !.picks = @ + 1]
                /\ available' = available \ {tile}
    /\ SpawnFrame

\* random.choice on the empty list of candidates raises IndexError (line 191)
SpawnChoiceRaises ==
    /\ spawn.pc = "pick"
    /\ available = {}
    /\ spawn' = [spawn EXCEPT !.pc = "raised"]
    /\ UNCHANGED available
    /\ SpawnFrame

NextSpawn ==
    \/ \E tp \in SpawnPlayerTiles : SpawnStart(tp)
    \/ \E tile \in background_tiles : SpawnPick(tile)
    \/ SpawnChoiceRaises

SpecSpawn == InitSpawn /\ [][NextSpawn]_vars

\* ------------------------------------------------------------------ C39
\* the cell lies outside the inclusive square of SpawnRadius around the tile tp
OutsideSquare(cell, tp) ==
    \/ cell[1] < tp[1] - SpawnRadius[1] \/ cell[1] > tp[1] + SpawnRadius[1]
    \/ cell[2] < tp[2] - SpawnRadius[2] \/ cell[2] > tp[2] + SpawnRadius[2]

\* C39: whenever _spawn_enemies has created an enemy, its position is the
\* pixel position of a background tile of the map whose cell holds no
\* foreground tile and lies outside the inclusive radius-10 square around the
\* player's tile; and the loop never makes more picks than there were
\* candidates, every failed pick having removed one candidate.
C39_SpawnPlace ==
    /\ spawn.pc = "spawned" =>
          /\ spawn.tile \in background_tiles
          /\ matrix_background[spawn.tile.cell] = spawn.tile
          /\ spawn.pos = <<spawn.tile.cell[1] * TileSize, spawn.tile.cell[2] * TileSize>>
          /\ matrix_foreground[spawn.tile.cell] = NoTile
          /\ OutsideSquare(spawn.tile.cell, spawn.player_tile)
    /\ spawn.pc \in { "pick", "spawned", "raised" } =>
          /\ spawn.picks <= spawn.candidates
          /\ spawn.pc = "pick" => Cardinality(available) = spawn.candidates - spawn.picks
          /\ spawn.pc = "spawned" =>
                Cardinality(available) = spawn.candidates - (spawn.picks - 1)

\* an enemy created eleven rows from the player after a failed pick of a
\* background tile under a "stone" foreground tile
C39_Witness ==
    /\ spawn.pc = "spawned"
    /\ spawn.picks = 2
    /\ spawn.candidates = 4
    /\ spawn.tile.cell[2] = spawn.player_tile[2] + SpawnRadius[2] + 1

\* ===================================================== projectiles in flight
\* speed * dt of one frame at 60 frames a second, in fixed point: an enemy's
\* bullet (speed 100) and the player's (speed 500)
FlightDistances == { 17, 83 }

\* Player._attack, Hornet._attack: a Projectyle is created at the shooter's
\* position with the direction to the aimed point, which is (0, 0) when that
\* point is the shooter's position (_get_entity_distance_direction), and is
\* added to the game's entity group
Fire(distance, dirArg) ==
    /\ kind = "projectile"
    /\ ~listed /\ health > 0
    /\ pc = "idle" /\ frame = "update"
    /\ listed' = TRUE
    /\ call' = [distance |-> distance, direction |-> dirArg, pos |-> pos,
                collider |-> collider, hitbox |-> hitbox]
    /\ UNCHANGED <<kind, targets, pos, collider, hitbox, pc, direction, distance_to_walk,
                   collided, ret, tests, met, last, moves, health, target_life>>
    /\ UNCHANGED <<player, game, available, spawn, frame>>
    /\ UNCHANGED mapVars
    /\ UNCHANGED levelVars
    /\ UNCHANGED groupVars

\* EntityManager.update of a frame reaching the projectile: Projectyle.update
\* calls _move(speed * dt, direction); the setup of _move, and its return at
\* once, with False, when nothing is to be walked
FlightUpdate ==
    /\ listed
    /\ pc = "idle" /\ frame = "update"
    /\ frame' = "check_deaths"
    /\ LET nd  == MoveDirection(call.direction)
           dtw == WalkDistance(nd, call.distance)
       IN  /\ direction' = nd
           /\ distance_to_walk' = dtw
           /\ pc' = IF dtw = <<0, 0>> THEN "idle" ELSE "x"
           /\ ret' = IF dtw = <<0, 0>> THEN FALSE ELSE "running"
           /\ health' = IF dtw = <<0, 0>> THEN update(kind, health, FALSE) ELSE health
    /\ collided' = FALSE
    /\ tests' = NoTests
    /\ met' = {}
    /\ last' = NoStep
    /\ UNCHANGED <<kind, targets, pos, collider, hitbox, call, moves, target_life>>
    /\ UNCHANGED <<player, game, available, spawn, listed>>
    /\ UNCHANGED mapVars
    /\ UNCHANGED levelVars
    /\ UNCHANGED groupVars

\* EntityManager.check_deaths of the same frame, after the update returned:
\* a projectile whose check_death is True is killed, which takes it out of
\* the entity group
CheckDeaths ==
    /\ listed
    /\ pc = "idle" /\ frame = "check_deaths"
    /\ listed' = ~check_death([health |-> health])
    /\ frame' = "update"
    /\ UNCHANGED <<kind, targets, pos, collider, hitbox, pc, direction, distance_to_walk,
                   collided, ret, call, tests, met, last, moves, health, target_life>>
    /\ UNCHANGED <<player, game, available, spawn>>
    /\ UNCHANGED mapVars
    /\ UNCHANGED levelVars
    /\ UNCHANGED groupVars

NextFlight ==
    \/ \E distance \in FlightDistances, dirArg \in DirectionArgs : Fire(distance, dirArg)
    \/ FlightUpdate
    \/ StepX
    \/ StepY
    \/ CheckDeaths

\* every step of a flight moves the frame, the position in _move or the
\* membership of the projectile
flightVars == <<frame, pc, listed>>

\* Game.run is called every frame and every call runs to its end
SpecFlight == InitMove /\ [][NextFlight]_vars /\ WF_flightVars(NextFlight)

\* ------------------------------------------------------------------ C40
\* C40: every projectile added to the game's entity group is eventually
\* removed from it.
C40_ProjectileRemoved == listed ~> ~listed

\* a projectile fired with the direction (0, 0): its update returned without
\* walking and without a collision, and check_deaths is about to keep it
C40_Witness ==
    /\ listed /\ kind = "projectile"
    /\ call.direction = <<0, 0>> /\ distance_to_walk = <<0, 0>>
    /\ pc = "idle" /\ frame = "check_deaths"
    /\ ~check_death([health |-> health])

====
